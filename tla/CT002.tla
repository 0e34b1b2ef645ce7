-------------------------------- MODULE CT002 --------------------------------
(***************************************************************************)
(* The life of a battery ("consumer") in the CT002 / CT003 emulator        *)
(* (ct002/ct002.py, with request_dedupe.py and udp_server.py under it):    *)
(* polls arrive, each in a task of its own; a task books the report,       *)
(* decides whether the poll earns a reply, and if so AWAITS the meter; it  *)
(* resumes some ticks later, computes the instruction, books it and        *)
(* answers.  Between the two halves of a handler other polls of the same   *)
(* battery, the cleanup pass, the user's settings and the shutdown may     *)
(* all run.                                                                *)
(*                                                                         *)
(* Time.  The code compares clock readings; the model counts how many      *)
(* ticks ago something happened and saturates at AgeCap, which must lie    *)
(* beyond every threshold an age is compared with.  A meter read lasts at  *)
(* most MeterTimeout ticks: the timeouts of the sources bound it.          *)
(*                                                                         *)
(* Data.  A phase is a steered one or "0", detecting.  The allocation      *)
(* (balancer.py) is a component of its own: here it may return any         *)
(* instruction of Deltas.  One value of Readings stands for a three-phase  *)
(* reading, and is the part of it the battery applies.                     *)
(***************************************************************************)
EXTENDS RequestDedupe

CONSTANTS
    Consumers,        \* battery ids (MAC addresses)
    Tasks,            \* names for the datagram tasks that can be alive at once
    Phases,           \* what a poll's phase field can hold
    Powers,           \* what a poll's power field can hold
    Readings,         \* finite meter readings
    Deltas,           \* instructions the balancer can return
    Outcomes,         \* how a meter read can end: see Answer
    Settings,         \* values of a per-battery number (manual target, weight, limit)
    NoReading,        \* Consumer.values is None
    NoSample,         \* the balancer has not been fed yet
    NonFinite,        \* a reading with NaN or Inf in it
    Raised,           \* the before_send hook raised
    Unmatched,        \* the hook returned None: no meter serves this client
    ConsumerTtl,      \* CONSUMER_TTL in ticks, or AdaptiveTtl when unset
    MinTtl,           \* ADAPTIVE_TTL_MIN_SECONDS
    FallbackTtl,      \* ADAPTIVE_TTL_FALLBACK_SECONDS
    CleanupInterval,  \* CLEANUP_INTERVAL_SECONDS
    MeterTimeout,     \* the longest a meter read may take
    AgeCap,           \* bound of the model: ages saturate here
    MaxPollGap,       \* bound of the model: adaptive cadences up to this gap
    ActiveControl,    \* ACTIVE_CONTROL as configured
    UserCommands      \* whether the user changes settings in this instance

AdaptiveTtl == -1
Unassigned == "0"
DefaultPhase == "A"
Hold == 0             \* the sentinel [0, 0, 0] a failed read is answered with

ASSUME ConstantsAssumption ==
    /\ AgeCap \in Nat
    /\ MeterTimeout \in Nat
    /\ CleanupInterval \in Nat
    /\ MaxPollGap \in Nat
    /\ MinTtl \in Nat
    /\ FallbackTtl \in Nat
    /\ MinTtl <= FallbackTtl
    /\ ConsumerTtl \in Nat \cup {AdaptiveTtl}
    /\ DefaultPhase \in Phases
    /\ Powers \subseteq Int
    /\ Readings \subseteq Int
    /\ Deltas \subseteq Int
    /\ 0 \in Powers
    /\ 0 \in Settings
    /\ ActiveControl \in BOOLEAN
    /\ UserCommands \in BOOLEAN
    /\ Outcomes \subseteq Readings \cup {NonFinite, Raised, Unmatched}

VARIABLES
    consumers,      \* id -> Consumer
    overrides,      \* id -> the ConsumerOverride snapshot
    dedup,          \* id -> ticks since the last accepted request, or NoEntry
    handlers,       \* tasks parked in before_send, with the request they hold
    inflight,       \* _inflight_consumers
    inspecting,     \* _inspecting
    activeControl,  \* active_control, live
    sinceCleanup,   \* ticks since the cleanup loop last ran
    running,        \* the server is up
    announced,      \* ids the event listener counts as present
    fed,            \* the last sample handed to the balancer
    \* History, read by properties only.
    filtered,       \* id -> readings of a sweep taken for it since the last reset
    lapsed,         \* a battery was evicted in its sweep, with no reset since
    lastServed,     \* id -> ticks since a poll was last taken on, up to the window
    wanted,         \* id -> the settings as the user last left them
    sent            \* id -> the last reply, and what it was computed from

vars == <<consumers, overrides, dedup, handlers, inflight, inspecting,
          activeControl, sinceCleanup, running, announced, fed, filtered, lapsed,
          lastServed, wanted, sent>>

-----------------------------------------------------------------------------
(* Types. *)

Ages == 0..AgeCap
NoInterval == -1
NoReply == [kind |-> "none", from |-> 0, delta |-> 0, measured |-> FALSE]

Control == [active : BOOLEAN, manual : BOOLEAN, setting : Settings]
DefaultControl == [active |-> TRUE, manual |-> FALSE, setting |-> 0]

\* `known` is membership of the code's dict, `seen` is timestamp > 0; `interval`
\* is poll_interval in tenths of a tick; `booked` is last_sent_power.
Consumer == [known : BOOLEAN, seen : BOOLEAN, age : Ages, interval : Int,
             phase : Phases, power : Powers, booked : Int, control : Control,
             values : Readings \cup {NoReading, NonFinite}]

Absent == [known |-> FALSE, seen |-> FALSE, age |-> 0, interval |-> NoInterval,
           phase |-> DefaultPhase, power |-> 0, booked |-> 0,
           control |-> DefaultControl, values |-> NoReading]

\* `swept` is history: some battery swept its output in the course of the read.
Handler == [task : Tasks, consumer : Consumers, power : Powers,
            inspection : BOOLEAN, swept : BOOLEAN, age : 0..MeterTimeout]

\* `from` is the output the instruction started from, `measured` whether a
\* reading of the meter is behind the reply.
Reply == [kind : {"none", "raw", "instruction"}, from : Int, delta : Int,
          measured : BOOLEAN]

TypeOK ==
    /\ consumers \in [Consumers -> Consumer]
    /\ overrides \in [Consumers -> Control]
    /\ dedup \in [Consumers -> Ages \cup {NoEntry}]
    /\ handlers \subseteq Handler
    /\ inflight \subseteq Consumers
    /\ inspecting \subseteq Consumers
    /\ activeControl \in BOOLEAN
    /\ sinceCleanup \in 0..CleanupInterval
    /\ running \in BOOLEAN
    /\ announced \subseteq Consumers
    /\ fed \in Readings \cup {NoReading, NoSample}
    /\ filtered \in [Consumers -> 0..2]
    /\ lapsed \in BOOLEAN
    /\ lastServed \in [Consumers -> 0..DedupeWindow]
    /\ wanted \in [Consumers -> Control]
    /\ sent \in [Consumers -> Reply]

-----------------------------------------------------------------------------
(* Consumers: creation, liveness, expiry. *)

Older(age) == IF age < AgeCap THEN age + 1 ELSE AgeCap

\* What _apply_override seeds a new Consumer with.  An id without a saved
\* override keeps the defaults, which is what `overrides` holds for it.
ApplyOverride(c) == overrides[c]

\* _get_consumer: the entry, created from the saved settings when missing.
GetConsumer(c) ==
    IF consumers[c].known THEN consumers[c]
    ELSE [Absent EXCEPT !.known = TRUE, !.control = ApplyOverride(c)]

\* _ema_interval, in tenths of a tick, halves rounded up.
EmaInterval(previous, gap) ==
    IF previous = NoInterval THEN 10 * gap
    ELSE (30 * gap + 7 * previous + 5) \div 10

\* _consumer_ttl_seconds, in tenths of a tick.
TtlTenths(r) ==
    IF ConsumerTtl # AdaptiveTtl THEN 10 * ConsumerTtl
    ELSE IF r.interval = NoInterval THEN 10 * FallbackTtl
    ELSE IF 2 * r.interval > 10 * MinTtl THEN 2 * r.interval
    ELSE 10 * MinTtl

ConsumerExpired(r) == r.known /\ r.seen /\ 10 * r.age > TtlTenths(r)

\* The report of one poll, as _update_consumer_report books it: the cadence
\* from the previous report's age, then phase, power and a fresh timestamp.
\* With a fixed TTL nothing reads the cadence, and it is left out.
Reported(c, phase, power) ==
    LET r == GetConsumer(c)
    IN  [r EXCEPT !.seen = TRUE, !.age = 0, !.phase = phase, !.power = power,
                  !.interval = IF r.seen /\ ConsumerTtl = AdaptiveTtl
                               THEN EmaInterval(@, r.age) ELSE @]

Sweeping(r) == r.seen /\ r.phase = Unassigned

-----------------------------------------------------------------------------
(* The first half of a handler: everything up to the await. *)

\* _sync_inspection_filters resetting on the inspection polls only (mutant).
ResetsDuringSweep(c, inspection) == inspection

\* Whether this poll makes _sync_inspection_filters call reset_fn: every poll of
\* a sweep does, and the first one after it.
ResetsFilters(c, inspection) == inspection \/ c \in inspecting

\* _should_serve without the coalescing (mutant).
ServesEveryPoll(c) == ~Repeats(dedup[c])

\* _should_serve: neither a repeat nor a poll whose reply is still owed.
ShouldServe(c) == ~Repeats(dedup[c]) /\ c \notin inflight

\* History: the reads under way while a battery sweeps, those the poll finds
\* parked and the one it starts.
NoSamples == [c \in Consumers |-> 0]
Swept == \E d \in Consumers : Sweeping(consumers'[d])
Overlapped(inspection) ==
    IF inspection THEN {[h EXCEPT !.swept = TRUE] : h \in handlers} ELSE handlers

\* One datagram of c.  The report is booked first, whatever becomes of the poll;
\* the deduplicator records the poll before the in-flight test refuses it.
Poll(c, phase, power) ==
    LET inspection == phase = Unassigned IN
    /\ running
    /\ ConsumerTtl = AdaptiveTtl => consumers[c].age <= MaxPollGap
    /\ consumers' = [consumers EXCEPT ![c] = Reported(c, phase, power)]
    /\ inspecting' = IF inspection THEN inspecting \cup {c} ELSE inspecting \ {c}
    /\ IF ResetsFilters(c, inspection)
       THEN filtered' = NoSamples /\ lapsed' = FALSE
       ELSE UNCHANGED <<filtered, lapsed>>
    /\ dedup' = [dedup EXCEPT ![c] = IF Repeats(@) THEN Dropped(@) ELSE Accepted(@)]
    /\ \E t \in Tasks :
          /\ \A h \in handlers : h.task # t
          /\ IF ShouldServe(c)
             THEN /\ handlers' = Overlapped(inspection) \cup
                        {[task |-> t, consumer |-> c, power |-> power,
                          inspection |-> inspection, swept |-> Swept, age |-> 0]}
                  /\ inflight' = inflight \cup {c}
                  /\ lastServed' = [lastServed EXCEPT ![c] = 0]
             ELSE handlers' = Overlapped(inspection) /\ UNCHANGED <<inflight, lastServed>>
    /\ UNCHANGED <<overrides, activeControl, sinceCleanup, running, announced,
                   fed, wanted, sent>>

-----------------------------------------------------------------------------
(* The second half: the meter read has ended with `outcome`, one of Readings, *)
(* NonFinite, Raised or Unmatched, and _serve runs to its end.                *)

\* The Consumer after set_consumer_value.
Held(c, outcome) ==
    IF outcome \in Readings \cup {NonFinite}
    THEN [GetConsumer(c) EXCEPT !.values = outcome]
    ELSE consumers[c]

\* meter_failed, as _resolve_target settles it.
MeterFailed(c, outcome) == outcome = Raised \/ Held(c, outcome).values = NonFinite

\* The reading that answers the poll; the hold when there is none to trust.
Raw(c, outcome) ==
    IF outcome = Raised \/ Held(c, outcome).values \notin Readings
    THEN Hold ELSE Held(c, outcome).values

Steered(h, outcome) ==
    activeControl /\ ~h.inspection /\ ~MeterFailed(h.consumer, outcome)

\* What may go on the wire: the balancer's instruction or the raw reading.
Instructions(h, outcome) ==
    IF Steered(h, outcome) THEN Deltas ELSE {Raw(h.consumer, outcome)}

\* _record_sent_power: the request's power, read before the await, plus
\* the delta, computed after it.
Booked(h, r, delta) == [r EXCEPT !.booked = h.power + delta]

\* The entry _record_sent_power finds or creates.
Bookable(c, outcome) == IF Held(c, outcome).known THEN Held(c, outcome)
                        ELSE GetConsumer(c)

\* The `finally` of _handle_request missing (mutant).
StaysInFlight(c) == inflight

\* The `finally` of _handle_request.
Discarded(c) == inflight \ {c}

\* The reading of a sweep enters the filter windows when the read ends, whatever
\* was reset meanwhile.
Filtered(h, outcome) ==
    IF h.swept /\ outcome \in Readings \cup {NonFinite}
    THEN [filtered EXCEPT ![h.consumer] = IF @ < 2 THEN @ + 1 ELSE 2]
    ELSE filtered

Sent(h, outcome, delta) ==
    [kind |-> IF h.inspection THEN "raw" ELSE "instruction",
     from |-> consumers[h.consumer].power, delta |-> delta,
     measured |-> Held(h.consumer, outcome).values \in Readings /\ outcome # Raised]

\* The meter is down while the battery detects its phase: no reply at all.
StaySilent(h, outcome) ==
    /\ h.inspection /\ MeterFailed(h.consumer, outcome)
    /\ consumers' = [consumers EXCEPT ![h.consumer] = Held(h.consumer, outcome)]
    /\ UNCHANGED <<announced, fed, sent>>

\* A battery detecting its phase gets the reading and nothing is booked.
ReplyRaw(h, outcome) ==
    /\ h.inspection /\ ~MeterFailed(h.consumer, outcome)
    /\ consumers' = [consumers EXCEPT ![h.consumer] = Held(h.consumer, outcome)]
    /\ sent' = [sent EXCEPT ![h.consumer] = Sent(h, outcome, Raw(h.consumer, outcome))]
    /\ UNCHANGED <<announced, fed>>

\* A battery on a committed phase gets an instruction, which is booked, and the
\* event listener hears of it.
ReplyInstruction(h, outcome) ==
    LET c == h.consumer IN
    /\ ~h.inspection
    /\ \E delta \in Instructions(h, outcome) :
          /\ consumers' = [consumers EXCEPT ![c] =
                              Booked(h, Bookable(c, outcome), delta)]
          /\ sent' = [sent EXCEPT ![c] = Sent(h, outcome, delta)]
    /\ fed' = IF Steered(h, outcome) THEN Held(c, outcome).values ELSE fed
    /\ announced' = announced \cup {c}

Answer(h, outcome) ==
    /\ StaySilent(h, outcome) \/ ReplyRaw(h, outcome) \/ ReplyInstruction(h, outcome)
    /\ handlers' = handlers \ {h}
    /\ inflight' = Discarded(h.consumer)
    /\ filtered' = Filtered(h, outcome)
    /\ UNCHANGED <<overrides, dedup, inspecting, activeControl, sinceCleanup,
                   running, lapsed, lastServed, wanted>>

-----------------------------------------------------------------------------
(* The cleanup loop. *)

Stale == {c \in Consumers : ConsumerExpired(consumers[c])}

\* A horizon that only spares what came since the pass before (mutant).
PurgesEachPass == CleanupInterval

\* How long a dedupe entry is kept: CONSUMER_TTL when it is set.
PurgeHorizon ==
    IF ConsumerTtl # AdaptiveTtl THEN ConsumerTtl
    ELSE IF FallbackTtl > DedupeWindow THEN FallbackTtl ELSE DedupeWindow

\* What _cleanup_consumers leaves of _inspecting.  It calls no reset_fn.
InspectingAfter(gone) == inspecting \ gone

\* An eviction the event listener is not told of (mutant).
StillAnnounced(gone) == announced

\* The listener hears `_removed` for every evicted battery.
AnnouncedAfter(gone) == announced \ gone

\* _cleanup_consumers.  It does not look at the parked handlers.
CleanupConsumers ==
    /\ running
    /\ sinceCleanup >= CleanupInterval
    /\ consumers' = [c \in Consumers |-> IF c \in Stale THEN Absent ELSE consumers[c]]
    /\ announced' = AnnouncedAfter(Stale)
    /\ inspecting' = InspectingAfter(Stale)
    /\ dedup' = [c \in Consumers |-> Purged(dedup[c], PurgeHorizon)]
    /\ lapsed' = (lapsed \/ \E c \in Stale : Sweeping(consumers[c]))
    /\ sinceCleanup' = 0
    /\ UNCHANGED <<overrides, handlers, inflight, activeControl, running, fed,
                   filtered, lastServed, wanted, sent>>

-----------------------------------------------------------------------------
(* The user's settings (MQTT, dashboard).  Each setter finds or creates the  *)
(* Consumer, changes it and snapshots its whole control state.               *)

\* A setter without its _snapshot_override (mutant).
NoSnapshot(c, control) == overrides

Snapshot(c, control) == [overrides EXCEPT ![c] = control]

Change(c, control) ==
    /\ UserCommands
    /\ consumers' = [consumers EXCEPT ![c] = [GetConsumer(c) EXCEPT !.control = control]]
    /\ overrides' = Snapshot(c, control)
    /\ UNCHANGED <<dedup, handlers, inflight, inspecting, activeControl,
                   sinceCleanup, running, announced, fed, filtered, lapsed,
                   lastServed, sent>>

\* set_consumer_manual_target and the setters of the weights and the limits.
SetNumber(c, value) ==
    /\ Change(c, [GetConsumer(c).control EXCEPT !.setting = value])
    /\ wanted' = [wanted EXCEPT ![c].setting = value]

SetAutoTarget(c, auto) ==
    /\ Change(c, [GetConsumer(c).control EXCEPT !.manual = ~auto])
    /\ wanted' = [wanted EXCEPT ![c].manual = ~auto]

SetActive(c, active) ==
    /\ Change(c, [GetConsumer(c).control EXCEPT !.active = active])
    /\ wanted' = [wanted EXCEPT ![c].active = active]

SetActiveControl(active) ==
    /\ UserCommands
    /\ activeControl # active
    /\ activeControl' = active
    /\ UNCHANGED <<consumers, overrides, dedup, handlers, inflight, inspecting,
                   sinceCleanup, running, announced, fed, filtered, lapsed,
                   lastServed, wanted, sent>>

-----------------------------------------------------------------------------
(* The server. *)

\* stop: the socket closes first, then every parked task is cancelled; its
\* `finally` still runs.
Stop ==
    /\ running
    /\ running' = FALSE
    /\ handlers' = {}
    /\ inflight' = inflight \ {h.consumer : h \in handlers}
    /\ UNCHANGED <<consumers, overrides, dedup, inspecting, activeControl,
                   sinceCleanup, announced, fed, filtered, lapsed, lastServed,
                   wanted, sent>>

Start ==
    /\ ~running
    /\ running' = TRUE
    /\ sinceCleanup' = 0
    /\ UNCHANGED <<consumers, overrides, dedup, handlers, inflight, inspecting,
                   activeControl, announced, fed, filtered, lapsed, lastServed,
                   wanted, sent>>

\* Time passes.  No meter read outlasts MeterTimeout.
Tick ==
    /\ \A h \in handlers : h.age < MeterTimeout
    /\ handlers' = {[h EXCEPT !.age = @ + 1] : h \in handlers}
    /\ consumers' = [c \in Consumers |->
          [consumers[c] EXCEPT !.age = IF consumers[c].seen THEN Older(@) ELSE @]]
    /\ dedup' = [c \in Consumers |-> IF dedup[c] = NoEntry THEN NoEntry ELSE Older(dedup[c])]
    /\ sinceCleanup' = IF sinceCleanup < CleanupInterval THEN sinceCleanup + 1
                       ELSE sinceCleanup
    /\ lastServed' = [c \in Consumers |->
          IF lastServed[c] < DedupeWindow THEN lastServed[c] + 1 ELSE DedupeWindow]
    /\ UNCHANGED <<overrides, inflight, inspecting, activeControl, running,
                   announced, fed, filtered, lapsed, wanted, sent>>

-----------------------------------------------------------------------------
Init ==
    /\ consumers = [c \in Consumers |-> Absent]
    /\ overrides = [c \in Consumers |-> DefaultControl]
    /\ dedup = [c \in Consumers |-> NoEntry]
    /\ handlers = {}
    /\ inflight = {}
    /\ inspecting = {}
    /\ activeControl = ActiveControl
    /\ sinceCleanup = 0
    /\ running = TRUE
    /\ announced = {}
    /\ fed = NoSample
    /\ filtered = NoSamples
    /\ lapsed = FALSE
    /\ lastServed = [c \in Consumers |-> DedupeWindow]
    /\ wanted = [c \in Consumers |-> DefaultControl]
    /\ sent = [c \in Consumers |-> NoReply]

UserCommand(c) ==
    \/ \E value \in Settings : SetNumber(c, value)
    \/ \E auto \in BOOLEAN : SetAutoTarget(c, auto)
    \/ \E active \in BOOLEAN : SetActive(c, active)

ReadEnds(c) ==
    \E h \in handlers : h.consumer = c /\ \E outcome \in Outcomes : Answer(h, outcome)

Next ==
    \/ \E c \in Consumers, phase \in Phases, power \in Powers : Poll(c, phase, power)
    \/ \E c \in Consumers : ReadEnds(c)
    \/ CleanupConsumers
    \/ \E c \in Consumers : UserCommand(c)
    \/ \E active \in BOOLEAN : SetActiveControl(active)
    \/ Stop
    \/ Start
    \/ Tick

\* Time passes, the event loop runs the cleanup task, and every read ends (the
\* sources time out).  Nothing makes a battery poll or a user act.
Fairness ==
    /\ WF_vars(Tick)
    /\ WF_vars(CleanupConsumers)
    /\ \A c \in Consumers : WF_vars(ReadEnds(c))

Spec == Init /\ [][Next]_vars
FairSpec == Spec /\ Fairness

-----------------------------------------------------------------------------
(* What must hold. *)

\* The in-flight set the code keeps is exactly the set of batteries that have a
\* handler parked in before_send, and never two handlers wait for one battery:
\* a late meter must not release a burst of corrections (_should_serve).
InflightIsParked ==
    /\ inflight = {h.consumer : h \in handlers}
    /\ \A g, h \in handlers : g.consumer = h.consumer => g = h

\* A battery the dedupe window still covers has its entry, whatever the cleanup
\* pass purged: two polls taken on lie a window apart (_cleanup_consumers'
\* comment: the horizon is "safely past" the window).  A CONSUMER_TTL shorter
\* than the window is not: the entry is then kept for the TTL only.
DedupeRemembers ==
    \A c \in Consumers :
        /\ lastServed[c] < DedupeWindow
        /\ ConsumerTtl = AdaptiveTtl \/ lastServed[c] <= ConsumerTtl
        => dedup[c] \in 0..lastServed[c]

\* Whoever the event listener counts as present has polled and has not been
\* evicted since, so the cleanup pass can still find it once it falls silent.
AnnouncedIsLive ==
    \A c \in announced : consumers[c].known /\ consumers[c].seen

\* A battery is evicted only when no handler still works for it: the handler
\* would book the reply on a Consumer that no longer exists.
ParkedIsKnown ==
    \A h \in handlers : consumers[h.consumer].known /\ consumers[h.consumer].seen

\* What the user set sticks to the battery through evictions and returns, in
\* whatever order settings, polls and evictions come (_apply_override).
SettingsSurvive ==
    \A c \in Consumers : consumers[c].known => consumers[c].control = wanted[c]

\* Once every sweep has ended the filter windows hold, of the readings taken for
\* a battery's polls, at most one of a sweep: a read that was under way at the
\* sweep's last poll, whose reset it outlives.  Neither the polls of the others
\* meanwhile nor a sweep that begins during a read lets a second one in, except
\* after a battery was evicted in its sweep, which resets nothing.
OneLateSample ==
    (\A c \in Consumers : ~Sweeping(consumers[c])) /\ ~lapsed
        => \A c \in Consumers : filtered[c] <= 1

\* The stateful controller is only ever fed a reading that was measured: never
\* the hold sentinel, never a non-finite one (_resolve_target).
FedIsMeasured == fed \in Readings \cup {NoSample}

\* A battery detecting its phase compares every reply with its baseline, so it is
\* answered with a reading or not at all, never with the zero hold (_serve).
DetectingSeesTheMeter ==
    \A c \in Consumers : sent[c].kind = "raw" => sent[c].measured

\* A battery that stops polling is announced as gone while the server runs.
SilentBatteryLeaves ==
    \A c \in Consumers :
        (running /\ c \in announced)
            ~> (~running \/ c \notin announced \/ (consumers[c].seen /\ consumers[c].age = 0))

\* The promise of RequestReply: one debt per battery, opened by a poll that is
\* taken on, settled by the reply.  Two handlers of one battery would owe two.
Debt(c) ==
    IF \E g, h \in handlers : g # h /\ g.consumer = c /\ h.consumer = c THEN 2
    ELSE IF \E h \in handlers : h.consumer = c THEN 1 ELSE 0

OwedNow == [c \in Consumers |-> Debt(c)]

Owed == INSTANCE RequestReply WITH owed <- OwedNow

KeepsPromise == Owed!Spec
=============================================================================
