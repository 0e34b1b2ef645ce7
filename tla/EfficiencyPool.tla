--------------------------- MODULE EfficiencyPool ---------------------------
(***************************************************************************)
(* Which batteries of the pool run (the efficiency rotation of             *)
(* ct002/balancer.py).  When the demand is too small to keep every battery *)
(* efficient, the balancer keeps an order of the pool, lets the first few  *)
(* work and steers the others to 0 W.  The order rotates on a timer, swaps *)
(* a battery that stopped following its commands for a healthy one, and    *)
(* tests every such handoff with a PROBE: the battery that was displaced   *)
(* stays on until the newcomer has delivered, and takes the slot back when *)
(* it has not.  Polls, evictions, the user's commands and the clock        *)
(* interleave freely; every one of them may strike in the middle of a      *)
(* probe.                                                                  *)
(*                                                                         *)
(* Data.  The demand estimate is an integer in units in which              *)
(* MIN_EFFICIENT_POWER is EfficientPower; the estimate, its direction and  *)
(* the batteries' outputs are inputs of each poll.  A saturation score is  *)
(* a verdict: at the threshold or not; what moves the score (the EMA and   *)
(* its grace windows) is an input.  The fade between roles smooths what    *)
(* this module decides and is read by none of its decisions; it is left    *)
(* out, and so is the standby reserve.                                     *)
(***************************************************************************)
EXTENDS Integers, Sequences, FiniteSets

CONSTANTS
    Batteries,         \* battery ids, ordered
    Weights,           \* efficiency window weights, at most FullWeight
    FullWeight,
    Demands,           \* what the demand estimate can be
    EfficientPower,    \* MIN_EFFICIENT_POWER, in a unit of a fifth of it
    RotationInterval,  \* EFFICIENCY_ROTATION_INTERVAL, in ticks
    ProbeTimeout,      \* SATURATION_GRACE_SECONDS, in ticks
    AcChargeable,      \* the batteries that can charge from AC
    Unreliable,        \* the batteries that may stop following in this instance
    Commands,          \* which of the environment's moves this instance has
    NoProbe,           \* _probe_state is None
    NoCache            \* _cache_sample is None

AllCommands == {"evict", "aside", "pause", "manual", "resume", "weight", "rotate",
                "idle"}

ASSUME PoolAssumption ==
    /\ Batteries \subseteq Nat
    /\ IsFiniteSet(Batteries)
    /\ FullWeight \in Nat \ {0}
    /\ Weights \subseteq 0..FullWeight
    /\ Demands \subseteq Nat
    /\ EfficientPower \in Nat \ {0}
    /\ RotationInterval \in Nat
    /\ ProbeTimeout \in Nat
    /\ AcChargeable \subseteq Batteries
    /\ Unreliable \subseteq Batteries
    /\ Commands \subseteq AllCommands

VARIABLES
    status,         \* where the emulator has each battery: see Statuses
    weight,         \* efficiency_window_weight, as its report carries it
    priority,       \* _priority
    deprioritized,  \* _deprioritized
    probe,          \* _probe_state
    saturated,      \* the batteries whose saturation score is at the threshold
    sinceRotation,  \* ticks since _last_rotation
    cache,          \* the order in the key of the cached decision, or NoCache
    steady          \* history: the last step was a poll that made the decision

vars == <<status, weight, priority, deprioritized, probe, saturated,
          sinceRotation, cache, steady>>

-----------------------------------------------------------------------------
(* Batteries and orders of them. *)

\* "auto" batteries are the reports of a poll; an "aside" one detects its phase
\* or asks not to participate; an "out" one is paused or on a manual target.
Statuses == {"gone", "auto", "aside", "out"}

Pool == {c \in Batteries : status[c] = "auto"}

Members(s) == {s[i] : i \in 1..Len(s)}

\* Every order of some of the batteries.
Orders ==
    {s \in UNION {[1..n -> Batteries] : n \in 0..Cardinality(Batteries)} :
        \A i, j \in DOMAIN s : s[i] = s[j] => i = j}

\* The order of the members of S in which each is ahead of the next: one order,
\* when Ahead is total on S.
Sorted(S, Ahead(_, _)) ==
    {s \in Orders : /\ Members(s) = S
                    /\ \A i, j \in 1..Len(s) : i < j => Ahead(s[i], s[j])}

Place(s, c) == CHOOSE i \in 1..Len(s) : s[i] = c

\* The members of S that s holds, in the order of s.
Keeping(s, S) ==
    Sorted(Members(s) \cap S, LAMBDA x, y : Place(s, x) < Place(s, y))

First(S) == CHOOSE i \in S : \A j \in S : i <= j

Leading(s, n) == {s[i] : i \in 1..n}
Trailing(s, n) == {s[i] : i \in (n + 1)..Len(s)}

Probe == [candidate : Batteries, active : SUBSET Batteries,
          backups : SUBSET Batteries, restore : Orders, proven : 0..1,
          age : 0..ProbeTimeout]

\* None is not a ProbeState.
ASSUME NoProbeAssumption == NoProbe \notin Probe

\* Nor is it the order in the key of a decision.
ASSUME NoCacheAssumption == NoCache \notin Orders

Participants == IF probe = NoProbe THEN {} ELSE probe.active \cup probe.backups

TypeOK ==
    /\ status \in [Batteries -> Statuses]
    /\ weight \in [Batteries -> Weights]
    /\ priority \in Orders
    /\ deprioritized \subseteq Batteries
    /\ probe \in Probe \cup {NoProbe}
    /\ saturated \subseteq Batteries
    /\ sinceRotation \in 0..RotationInterval
    /\ cache \in Orders \cup {NoCache}
    /\ steady \in BOOLEAN

-----------------------------------------------------------------------------
(* The pass of one poll, stage by stage (_compute_efficiency_deprioritized). *)

\* The queued batteries as they stand, then the others by id (force_rotation).
QueuedFirst(x, y) ==
    IF x \in Members(priority) /\ y \in Members(priority)
    THEN Place(priority, x) < Place(priority, y)
    ELSE x \in Members(priority) \/ (y \notin Members(priority) /\ x < y)

\* A parked battery keeps the place the rotation gave it (mutant).
RanksByPlace(x, y) ==
    IF x \in Members(priority) /\ y \in Members(priority)
    THEN Place(priority, x) < Place(priority, y)
    ELSE \/ x \in Members(priority)
         \/ /\ y \notin Members(priority)
            /\ weight[x] > weight[y] \/ (weight[x] = weight[y] /\ x < y)

\* How _sync_pool ranks two reporting batteries: a parked one (weight 0) behind
\* the rest, the queued ones as they stood, then the arrivals, heaviest first.
RanksAhead(x, y) ==
    IF (weight[x] = 0) # (weight[y] = 0) THEN weight[y] = 0
    ELSE IF x \in Members(priority) /\ y \in Members(priority)
    THEN Place(priority, x) < Place(priority, y)
    ELSE \/ x \in Members(priority)
         \/ /\ y \notin Members(priority)
            /\ weight[x] > weight[y] \/ (weight[x] = weight[y] /\ x < y)

\* _sync_pool.
Synced == Sorted(Pool, RanksAhead)

\* The candidate of a rejected probe right behind the batteries it failed to
\* replace (mutant).
RejectedToPlace(order) ==
    {probe.restore \o <<probe.candidate>> \o rest :
        rest \in Keeping(order, Members(order)
                                \ (Members(probe.restore) \cup {probe.candidate}))}

\* A rejection that leaves the order as the probe made it (mutant).
RejectedInPlace(order) == {order}

\* _reject_probe: the batteries that ran before the probe, the rest as they
\* stood, the candidate last.
Rejected(order) ==
    {probe.restore \o rest \o <<probe.candidate>> :
        rest \in Keeping(order, Members(order)
                                \ (Members(probe.restore) \cup {probe.candidate}))}

\* A probe without its deadline (mutant).
NeverOverdue(p) == FALSE

Overdue(p) == p.age >= ProbeTimeout

\* What _resolve_probe_state leaves: the order, the probe, the verdicts, whether
\* the rotation clock restarts, and whether the cached decision still stands.
\* `delivers` is whether this report shows the candidate carrying the demand.
Resolutions(order, verdicts, delivers) ==
    IF probe = NoProbe
    THEN {[order |-> order, probe |-> NoProbe, saturated |-> verdicts,
           since |-> sinceRotation, cache |-> cache]}
    ELSE IF ~ Participants \subseteq Pool
    THEN {[order |-> order, probe |-> NoProbe, saturated |-> verdicts,
           since |-> sinceRotation, cache |-> NoCache]}
    ELSE IF delivers /\ probe.proven = 1
    THEN {[order |-> order, probe |-> NoProbe, saturated |-> verdicts,
           since |-> 0, cache |-> NoCache]}
    ELSE IF Overdue(probe)
    THEN {[order |-> s, probe |-> NoProbe,
           saturated |-> verdicts \cup {probe.candidate},
           since |-> sinceRotation, cache |-> NoCache] : s \in Rejected(order)}
    ELSE {[order |-> order,
           probe |-> [probe EXCEPT !.proven = IF delivers THEN 1 ELSE 0],
           saturated |-> verdicts, since |-> sinceRotation, cache |-> cache]}

\* How long the head keeps its slot: its weight shortens the turn only while
\* one battery runs.
Turn(head, slots) ==
    IF slots <= 1 /\ weight[head] > 0
    THEN (RotationInterval * weight[head]) \div FullWeight
    ELSE RotationInterval

\* _rotate_priority_head.
Rotated(p, slots) ==
    IF p.order # <<>> /\ p.since >= Turn(Head(p.order), slots)
    THEN [p EXCEPT !.order = Append(Tail(@), Head(@)), !.since = 0, !.cache = NoCache]
    ELSE p

\* _active_slot_saturated drops the cached decision.
Reconsidered(p, slots) ==
    IF \E c \in Leading(p.order, slots) : c \in p.saturated
    THEN [p EXCEPT !.cache = NoCache] ELSE p

\* _active_slots without the floor of one (mutant).
SlotsUnfloored(demand, n, limiting, slots) ==
    IF demand >= n * EfficientPower THEN n ELSE demand \div EfficientPower

\* _active_slots: entering the limiting regime and shrinking are immediate,
\* leaving it and growing take a margin of a fifth.
ActiveSlots(demand, n, limiting, slots) ==
    LET clamp(k) == IF k > n - 1 THEN n - 1 ELSE k
        wanted == IF demand \div EfficientPower < 1 THEN 1
                  ELSE clamp(demand \div EfficientPower)
        grown == clamp((5 * demand) \div (6 * EfficientPower))
        enough == IF limiting THEN 5 * demand >= 6 * EfficientPower * n
                  ELSE demand >= EfficientPower * n
    IN  IF n <= 1 \/ enough THEN n
        ELSE IF limiting /\ 1 <= slots /\ slots < wanted
        THEN IF grown > slots THEN grown ELSE slots
        ELSE wanted

\* The two places _maybe_force_swap_saturated exchanges: the first saturated
\* battery at work and the first healthy one it may give its slot to.
Swaps(order, slots, verdicts, surplus) ==
    LET sick == {i \in 1..slots : order[i] \in verdicts}
        fit(i) == {j \in (slots + 1)..Len(order) :
                      /\ order[j] \notin verdicts
                      /\ weight[order[i]] > 0 => weight[order[j]] > 0
                      /\ surplus => order[j] \in AcChargeable}
    IN  IF sick = {} \/ fit(First(sick)) = {} THEN {}
        ELSE {<<First(sick), First(fit(First(sick)))>>}

Swapped(order, i, j) == [order EXCEPT ![i] = order[j], ![j] = order[i]]

\* A probe for every promotion, displacing or not (mutant).
HandsOverNothing(order, slots, before) ==
    before # <<>> /\ ~ Leading(order, slots) \subseteq Members(before)

\* A probe only where the whole active set changes (mutant).
HandsOverWhole(order, slots, before) ==
    before # <<>> /\ Leading(order, slots) \cap Members(before) = {}

\* _probe_active_set_change: the pass both promotes and demotes.
HandsOver(order, slots, before) ==
    /\ before # <<>>
    /\ ~ Leading(order, slots) \subseteq Members(before)
    /\ ~ Members(before) \subseteq Leading(order, slots)

\* _begin_probe, for the first battery of the order that is promoted.
Begun(order, slots, before) ==
    [candidate |-> order[First({i \in 1..slots : order[i] \notin Members(before)})],
     active |-> Leading(order, slots),
     backups |-> Members(before) \ Leading(order, slots),
     restore |-> before, proven |-> 0, age |-> 0]

-----------------------------------------------------------------------------
(* The poll of a battery (compute_target). *)

\* _track_saturation: a probing battery is not judged; any other may be found
\* unable to follow, able again, or not be judged this time (a resting one is
\* judged only while it carries the standby reserve, any one only out of grace).
Verdicts(c) ==
    IF c \notin Unreliable \/ c \in Participants THEN {saturated}
    ELSE {saturated, saturated \cup {c}, saturated \ {c}}

\* Fewer than two batteries: nothing to rotate.
PassAlone(verdicts) ==
    /\ probe' = NoProbe
    /\ deprioritized' = {}
    /\ cache' = NoCache
    /\ saturated' = verdicts \cap (Pool \cup Members(priority))
    /\ steady' = FALSE
    /\ UNCHANGED <<priority, sinceRotation>>

\* The meter has not moved since the cached decision, and the order neither.
PassCached(p, kept) ==
    /\ p.cache = p.order
    /\ priority' = p.order
    /\ deprioritized' = kept
    /\ probe' = p.probe
    /\ saturated' = p.saturated \cap Pool
    /\ sinceRotation' = p.since
    /\ cache' = p.cache
    /\ UNCHANGED steady

\* The decision itself.  A running probe, or one resolved in this very pass,
\* keeps rotation, swap and the next probe out.  A battery that changes roles
\* starts its new one unjudged.
PassDecided(p, kept, before, demand, surplus) ==
    LET n == Len(p.order)
        slots == ActiveSlots(demand, n, kept # {}, n - Cardinality(kept))
        fresh == p.saturated \ (kept \ Trailing(p.order, slots))
        swaps == IF probe = NoProbe
                 THEN Swaps(p.order, slots, fresh, surplus) ELSE {}
        swap == CHOOSE w \in swaps : TRUE
        order == IF swaps = {} THEN p.order ELSE Swapped(p.order, swap[1], swap[2])
        promoted == Leading(order, slots) \ Leading(p.order, slots)
        resting == Trailing(order, slots)
    IN  /\ priority' = order
        /\ deprioritized' = resting
        /\ IF probe = NoProbe /\ HandsOver(order, slots, before)
           THEN /\ probe' = Begun(order, slots, before)
                /\ saturated' = ((fresh \ promoted) \ (resting \ kept))
                                \cap (Pool \ {probe'.candidate})
           ELSE /\ probe' = p.probe
                /\ saturated' = ((fresh \ promoted) \ (resting \ kept)) \cap Pool
        /\ sinceRotation' = IF swaps = {} THEN p.since ELSE 0
        /\ cache' = order
        /\ steady' = TRUE

\* The pass once _sync_pool has made the order `synced`.  `repeat` is whether the
\* meter still shows the sample of the cached decision.
PassTogether(synced, verdicts, repeat, delivers, demand, surplus) ==
    \E r \in Resolutions(synced, verdicts, delivers) :
        LET kept == deprioritized \cap Pool
            slots == Len(synced) - Cardinality(kept)
            p == IF probe = NoProbe
                 THEN Reconsidered(Rotated(r, slots), slots) ELSE r
        IN  IF repeat /\ p.cache = p.order THEN PassCached(p, kept)
            ELSE PassDecided(p, kept, SubSeq(synced, 1, slots), demand, surplus)

\* The values of an input that matters only where `when` holds.
Input(when) == IF when THEN BOOLEAN ELSE {FALSE}

\* compute_target for a battery of the pool.
Poll(c) ==
    /\ c \in Pool
    /\ IF Cardinality(Pool) < 2
       THEN \E verdicts \in Verdicts(c) : PassAlone(verdicts)
       ELSE \E synced \in Synced, verdicts \in Verdicts(c) :
            \E demand \in Demands, repeat \in Input(cache # NoCache),
               delivers \in Input(probe # NoProbe),
               surplus \in Input(probe = NoProbe /\ verdicts # {}) :
               PassTogether(synced, verdicts, repeat, delivers, demand, surplus)
    /\ UNCHANGED <<status, weight>>

\* A battery with distribution weight 0, or peak shaving below its threshold: the
\* poll is answered before the pass, and ends a probe the battery takes part in.
IdlePoll(c) ==
    /\ "idle" \in Commands
    /\ c \in Pool
    /\ saturated' \in Verdicts(c)
    /\ IF c \in Participants THEN probe' = NoProbe /\ cache' = NoCache
       ELSE UNCHANGED <<probe, cache>>
    /\ UNCHANGED <<status, weight, priority, deprioritized, sinceRotation, steady>>

-----------------------------------------------------------------------------
(* What the emulator and the user do to the pool between polls. *)

\* A battery's first poll, with the settings it had when it was evicted.
Arrive(c) ==
    /\ status[c] = "gone"
    /\ \E s \in {"auto"} \cup (IF "aside" \in Commands THEN {"aside"} ELSE {})
                         \cup (IF "pause" \in Commands THEN {"out"} ELSE {}) :
          status' = [status EXCEPT ![c] = s]
    /\ steady' = FALSE
    /\ UNCHANGED <<weight, priority, deprioritized, probe, saturated, sinceRotation, cache>>

\* The probe after c has left: cleared when c took part in it.
ProbeWithout(c) == IF c \in Participants THEN NoProbe ELSE probe

\* remove_consumer and detach_from_auto_pool on the state of this module.
Left(c) ==
    /\ deprioritized' = deprioritized \ {c}
    /\ priority' \in Keeping(priority, Batteries \ {c})
    /\ saturated' = saturated \ {c}
    /\ probe' = ProbeWithout(c)
    /\ steady' = FALSE
    /\ UNCHANGED <<weight, sinceRotation>>

\* remove_consumer, as the cleanup pass calls it.
Evict(c) ==
    /\ "evict" \in Commands
    /\ status[c] # "gone"
    /\ status' = [status EXCEPT ![c] = "gone"]
    /\ Left(c)
    /\ cache' = IF c \in Members(priority) \cup Participants THEN NoCache ELSE cache

\* detach_from_auto_pool, as set_consumer_auto_target(FALSE) calls it.
SetManual(c) ==
    /\ "manual" \in Commands
    /\ status[c] # "gone"
    /\ status' = [status EXCEPT ![c] = "out"]
    /\ Left(c)
    /\ cache' = NoCache

\* The balancer is not told that a battery detects its phase again, opts out of
\* steering, or is paused: it sees the reports change.
Moves(c, from, to) ==
    /\ status[c] \in from
    /\ status' = [status EXCEPT ![c] = to]
    /\ steady' = FALSE
    /\ UNCHANGED <<weight, priority, deprioritized, probe, saturated, sinceRotation, cache>>

StepAside(c) == "aside" \in Commands /\ Moves(c, {"auto"}, "aside")
ComeBack(c) == "aside" \in Commands /\ Moves(c, {"aside"}, "auto")
Pause(c) == "pause" \in Commands /\ Moves(c, {"auto", "aside"}, "out")

\* reset_consumer, as set_consumer_active and set_consumer_auto_target call it;
\* a battery that is both paused and manual takes two of them to return.
Resume(c) ==
    /\ "resume" \in Commands
    /\ status[c] # "gone"
    /\ \E s \in IF status[c] = "out" THEN {"auto", "aside", "out"} ELSE {status[c]} :
          status' = [status EXCEPT ![c] = s]
    /\ saturated' = saturated \ {c}
    /\ steady' = FALSE
    /\ UNCHANGED <<weight, priority, deprioritized, probe, sinceRotation, cache>>

SetWeight(c, w) ==
    /\ "weight" \in Commands
    /\ weight' = [weight EXCEPT ![c] = w]
    /\ steady' = FALSE
    /\ UNCHANGED <<status, priority, deprioritized, probe, saturated, sinceRotation, cache>>

\* What force_rotation, called with every active battery that is not manual,
\* counts as the pool: those that are aside too.
Eligible == {c \in Batteries : status[c] \in {"auto", "aside"}}

\* force_rotation.  With fewer than two batteries it returns half way.
ForceRotation ==
    /\ "rotate" \in Commands
    /\ \E order \in Sorted(Eligible, QueuedFirst) :
          IF Len(order) < 2
          THEN /\ priority' = order
               /\ UNCHANGED <<probe, saturated, sinceRotation, cache>>
          ELSE /\ priority' = Append(Tail(order), Head(order))
               /\ sinceRotation' = 0
               /\ probe' = NoProbe
               /\ cache' = NoCache
               /\ saturated' = saturated \cap Eligible
    /\ deprioritized' = deprioritized \cap Eligible
    /\ steady' = FALSE
    /\ UNCHANGED <<status, weight>>

Tick ==
    /\ sinceRotation' = IF sinceRotation < RotationInterval THEN sinceRotation + 1
                        ELSE sinceRotation
    /\ probe' = IF probe # NoProbe /\ probe.age < ProbeTimeout
                THEN [probe EXCEPT !.age = @ + 1] ELSE probe
    /\ UNCHANGED <<status, weight, priority, deprioritized, saturated, cache, steady>>

-----------------------------------------------------------------------------
Init ==
    /\ status = [c \in Batteries |-> "gone"]
    /\ weight \in [Batteries -> Weights]
    /\ priority = <<>>
    /\ deprioritized = {}
    /\ probe = NoProbe
    /\ saturated = {}
    /\ sinceRotation = 0
    /\ cache = NoCache
    /\ steady = FALSE

Polls(c) == Poll(c) \/ IdlePoll(c)

Command(c) ==
    \/ Evict(c)
    \/ SetManual(c)
    \/ StepAside(c)
    \/ ComeBack(c)
    \/ Pause(c)
    \/ Resume(c)
    \/ \E w \in Weights : SetWeight(c, w)

Next ==
    \/ \E c \in Batteries : Polls(c) \/ Arrive(c) \/ Command(c)
    \/ ForceRotation
    \/ Tick

\* A battery that counts as reporting polls, or the cleanup pass evicts it.
Fairness == WF_vars(Tick) /\ \A c \in Batteries : WF_vars(Polls(c))

Spec == Init /\ [][Next]_vars
FairSpec == Spec /\ Fairness

-----------------------------------------------------------------------------
(* What must hold. *)

\* A probe tests a battery that did not run before against batteries that did
\* and no longer would: its candidate is among the new active set and not among
\* those to restore, and whoever is to be restored takes part.  This is what
\* makes _reject_probe's rewritten order list every battery exactly once.
ProbeIsAHandoff ==
    probe # NoProbe =>
        /\ probe.candidate \in probe.active \ Members(probe.restore)
        /\ probe.backups # {}
        /\ probe.backups = Members(probe.restore) \ probe.active

\* After a pass the order lists exactly the batteries that report, and the ones
\* at rest never are all of them: some battery covers the house.
SomeoneRuns ==
    steady => /\ Members(priority) = Pool
              /\ deprioritized # Pool

\* Between two passes over an unchanged pool, no battery at work is sent to rest
\* in exchange for one at rest unless a probe watches over the exchange.  Two
\* exceptions, both of a parked battery at work, which _sync_pool sends behind the
\* others before the pass looks who is working: the parked battery itself goes at
\* once, and when the pool also shrinks another may go with it, for the battery
\* that has just been moved up counts as working already.
HandoffIsProbed ==
    [][(steady /\ steady') =>
          LET ran == Pool \ deprioritized
              runs == Pool \ deprioritized'
          IN  \/ \A c \in ran \ runs : weight[c] = 0
              \/ runs \subseteq ran
              \/ /\ \E c \in ran : weight[c] = 0
                 /\ Cardinality(runs) < Cardinality(ran)
              \/ probe # NoProbe \/ probe' # NoProbe]_vars

\* A poll that finds a probe past its deadline, all its batteries reporting and
\* nothing proven, gives the work back to the battery that led before.
RejectionRestores ==
    [][(/\ probe # NoProbe /\ probe' = NoProbe /\ steady' /\ cache' # NoCache
        /\ Participants \subseteq Pool /\ sinceRotation' # 0)
          => probe.restore[1] \notin deprioritized']_vars

\* A battery with efficiency window weight 0 that the rotation has brought to the
\* head leads only until the next pass: a pass that neither rotates nor undoes a
\* probe leaves none in front of one that is not parked (_sync_pool;
\* _rotate_priority_head runs behind it and does not look at weights).
ParkedGivesWay ==
    [][(/\ steady' /\ sinceRotation' # 0
        /\ probe' = NoProbe => probe = NoProbe
        /\ \E c \in Members(priority') : weight[c] > 0
        /\ \E c \in Batteries : Poll(c))
          => weight[Head(priority')] > 0]_vars

\* Every probe ends while one of its batteries polls.
ProbeEnds ==
    probe # NoProbe ~> (probe = NoProbe \/ Participants \cap Pool = {})

\* The rotation starves nobody: a battery at rest gets its turn.
EveryoneGetsATurn ==
    \A c \in Batteries :
        (c \in deprioritized /\ weight[c] > 0)
            ~> (c \notin deprioritized \/ weight[c] = 0)
=============================================================================
