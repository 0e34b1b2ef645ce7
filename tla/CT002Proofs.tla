----------------------------- MODULE CT002Proofs -----------------------------
(***************************************************************************)
(* Theorems about CT002, for every set of batteries and every value of the *)
(* constants CT002 admits.  Each invariant is proved in the usual three    *)
(* facts: Init establishes it, a step preserves it, it implies the         *)
(* property; what a property needs of the configuration is a hypothesis of *)
(* its theorem.                                                            *)
(***************************************************************************)
EXTENDS CT002, TLAPS

\* The configuration keeps a silent battery for at least as long as a read lasts.
TtlOutlastsRead ==
    IF ConsumerTtl = AdaptiveTtl THEN MeterTimeout <= MinTtl
    ELSE MeterTimeout <= ConsumerTtl

-----------------------------------------------------------------------------
(* Type correctness. *)

\* _get_consumer returns a well-formed Consumer that the dict knows.
LEMMA GetConsumerType ==
    ASSUME TypeOK, NEW c \in Consumers
    PROVE  /\ GetConsumer(c) \in Consumer
           /\ GetConsumer(c).known
<1>1. Absent \in Consumer
  BY ConstantsAssumption DEF Absent, Consumer, Control, DefaultControl, Ages,
     NoInterval, DefaultPhase
<1>2. ApplyOverride(c) \in Control /\ consumers[c] \in Consumer
  BY DEF TypeOK, ApplyOverride
<1>3. [Absent EXCEPT !.known = TRUE, !.control = ApplyOverride(c)] \in Consumer
  BY <1>1, <1>2 DEF Consumer
<1>4. [Absent EXCEPT !.known = TRUE, !.control = ApplyOverride(c)].known
  BY DEF Absent
<1> QED BY <1>2, <1>3, <1>4 DEF GetConsumer

\* A report keeps the Consumer well-formed; it makes it seen and fresh.
LEMMA ReportedType ==
    ASSUME TypeOK, NEW c \in Consumers, NEW phase \in Phases, NEW power \in Powers
    PROVE  /\ Reported(c, phase, power) \in Consumer
           /\ Reported(c, phase, power).known
           /\ Reported(c, phase, power).seen
           /\ Reported(c, phase, power).age = 0
           /\ Reported(c, phase, power).control = GetConsumer(c).control
<1>1. GetConsumer(c) \in Consumer /\ GetConsumer(c).known
  BY GetConsumerType
<1>2. ASSUME NEW i \in Int, NEW a \in Int PROVE EmaInterval(i, a) \in Int
  BY DEF EmaInterval
<1> DEFINE r == GetConsumer(c)
           i == IF r.seen /\ ConsumerTtl = AdaptiveTtl
                THEN EmaInterval(r.interval, r.age) ELSE r.interval
<1>3. r.interval \in Int /\ r.age \in Int
  BY <1>1, ConstantsAssumption DEF Consumer, Ages
<1>4. i \in Int
  BY <1>2, <1>3
<1>5. Reported(c, phase, power) =
        [r EXCEPT !.seen = TRUE, !.age = 0, !.phase = phase, !.power = power,
                  !.interval = i]
  BY DEF Reported
<1>6. 0 \in Ages
  BY ConstantsAssumption DEF Ages
<1> HIDE DEF r, i
<1>7. r \in Consumer /\ r.known
  BY <1>1 DEF r
<1>8. [r EXCEPT !.seen = TRUE, !.age = 0, !.phase = phase, !.power = power,
                !.interval = i] \in Consumer
  BY <1>4, <1>6, <1>7 DEF Consumer
<1>9. Reported(c, phase, power).control = r.control
  BY <1>5, <1>7 DEF Consumer
<1> QED BY <1>5, <1>7, <1>8, <1>9 DEF Consumer, r

\* set_consumer_value keeps the entry well-formed.
LEMMA HeldType ==
    ASSUME TypeOK, NEW c \in Consumers, NEW outcome \in Outcomes
    PROVE  Held(c, outcome) \in Consumer
<1>1. GetConsumer(c) \in Consumer /\ GetConsumer(c).known
  BY GetConsumerType
<1> QED BY <1>1 DEF Held, TypeOK, Consumer

\* What a poll puts on the wire is an integer, and booking it is well-formed.
LEMMA BookedType ==
    ASSUME TypeOK, NEW h \in handlers, NEW outcome \in Outcomes,
           NEW delta \in Instructions(h, outcome)
    PROVE  /\ delta \in Int
           /\ Booked(h, Bookable(h.consumer, outcome), delta) \in Consumer
           /\ Sent(h, outcome, delta) \in Reply
<1>1. h \in Handler /\ h.consumer \in Consumers /\ h.power \in Int
  BY ConstantsAssumption DEF TypeOK, Handler
<1>2. Held(h.consumer, outcome) \in Consumer
  BY <1>1, HeldType
<1>3. GetConsumer(h.consumer) \in Consumer
  BY <1>1, GetConsumerType
<1>4. delta \in Int
  BY ConstantsAssumption DEF Instructions, Raw, Hold
<1>5. Bookable(h.consumer, outcome) \in Consumer
  BY <1>2, <1>3 DEF Bookable
<1>6. Booked(h, Bookable(h.consumer, outcome), delta) \in Consumer
  BY <1>1, <1>4, <1>5 DEF Booked, Consumer
<1>7. consumers[h.consumer].power \in Int
  BY <1>1, ConstantsAssumption DEF TypeOK, Consumer
<1>8. Sent(h, outcome, delta) \in Reply
  BY <1>4, <1>7 DEF Sent, Reply
<1> QED BY <1>4, <1>6, <1>8

\* Ageing stays inside the model's bound.
LEMMA OlderType ==
    ASSUME NEW age \in Ages
    PROVE  Older(age) \in Ages /\ Older(age) <= age + 1
BY ConstantsAssumption DEF Older, Ages

LEMMA InitType == Init => TypeOK
<1> SUFFICES ASSUME Init PROVE TypeOK
  OBVIOUS
<1>1. Absent \in Consumer
  BY ConstantsAssumption DEF Absent, Consumer, Control, DefaultControl, Ages,
     NoInterval, DefaultPhase
<1>2. DefaultControl \in Control
  BY ConstantsAssumption DEF DefaultControl, Control
<1>3. NoReply \in Reply
  BY DEF NoReply, Reply
<1>4. filtered \in [Consumers -> 0..2]
  BY DEF Init, NoSamples
<1>5. lastServed \in [Consumers -> 0..DedupeWindow]
  BY DedupeWindowAssumption DEF Init
<1>6. /\ consumers \in [Consumers -> Consumer]
      /\ overrides \in [Consumers -> Control]
      /\ wanted \in [Consumers -> Control]
      /\ sent \in [Consumers -> Reply]
  BY <1>1, <1>2, <1>3 DEF Init
<1>7. dedup \in [Consumers -> Ages \cup {NoEntry}]
  BY DEF Init
<1>8. /\ handlers \subseteq Handler
      /\ inflight \subseteq Consumers
      /\ inspecting \subseteq Consumers
      /\ announced \subseteq Consumers
      /\ fed \in Readings \cup {NoReading, NoSample}
  BY DEF Init
<1>9. activeControl \in BOOLEAN /\ running \in BOOLEAN /\ lapsed \in BOOLEAN
  BY ConstantsAssumption, Zenon DEF Init
<1>10. sinceCleanup \in 0..CleanupInterval
  BY ConstantsAssumption DEF Init
<1> QED BY <1>4, <1>5, <1>6, <1>7, <1>8, <1>9, <1>10 DEF TypeOK

\* A poll that finds reads under way leaves them as they are, but for the history.
LEMMA OverlappedHandlers ==
    ASSUME TypeOK, NEW inspection
    PROVE  /\ Overlapped(inspection) \subseteq Handler
           /\ \A h \in Overlapped(inspection) : \E g \in handlers :
                 /\ h = IF inspection THEN [g EXCEPT !.swept = TRUE] ELSE g
                 /\ h.consumer = g.consumer /\ h.age = g.age
           /\ \A g \in handlers : \E h \in Overlapped(inspection) : h.consumer = g.consumer
<1>1. \A g \in handlers : /\ g \in Handler
                          /\ [g EXCEPT !.swept = TRUE] \in Handler
                          /\ [g EXCEPT !.swept = TRUE].consumer = g.consumer
                          /\ [g EXCEPT !.swept = TRUE].age = g.age
  BY DEF TypeOK, Handler
<1>2. CASE inspection
  <2>1. Overlapped(inspection) = {[g EXCEPT !.swept = TRUE] : g \in handlers}
    BY <1>2 DEF Overlapped
  <2> QED BY <2>1, <1>1, <1>2
<1>3. CASE ~inspection
  <2>1. Overlapped(inspection) = handlers
    BY <1>3 DEF Overlapped
  <2> QED BY <2>1, <1>1, <1>3
<1> QED BY <1>2, <1>3

LEMMA PollType ==
    ASSUME TypeOK, NEW c \in Consumers, NEW phase \in Phases, NEW power \in Powers,
           Poll(c, phase, power)
    PROVE  TypeOK'
<1>1. Reported(c, phase, power) \in Consumer
  BY ReportedType
<1>2. consumers' \in [Consumers -> Consumer]
  BY <1>1 DEF Poll, TypeOK
<1>3. dedup' \in [Consumers -> Ages \cup {NoEntry}]
  BY ConstantsAssumption DEF Poll, TypeOK, Dropped, Accepted, Ages
<1>4. /\ handlers' \subseteq Handler
      /\ inflight' \subseteq Consumers
      /\ lastServed' \in [Consumers -> 0..DedupeWindow]
  <2> DEFINE inspection == phase = Unassigned
             new(t) == [task |-> t, consumer |-> c, power |-> power,
                        inspection |-> inspection, swept |-> Swept, age |-> 0]
  <2>1. PICK t \in Tasks :
          IF ShouldServe(c)
          THEN /\ handlers' = Overlapped(inspection) \cup {new(t)}
               /\ inflight' = inflight \cup {c}
               /\ lastServed' = [lastServed EXCEPT ![c] = 0]
          ELSE handlers' = Overlapped(inspection) /\ UNCHANGED <<inflight, lastServed>>
    BY DEF Poll
  <2>2. new(t) \in Handler
    <3>1. Swept \in BOOLEAN
      BY DEF Swept
    <3> QED BY <3>1, ConstantsAssumption DEF Handler
  <2>3. 0 \in 0..DedupeWindow
    BY DedupeWindowAssumption
  <2>4. Overlapped(inspection) \subseteq Handler
    BY OverlappedHandlers
  <2> HIDE DEF new, inspection
  <2>5. CASE ShouldServe(c)
    BY <2>1, <2>2, <2>3, <2>4, <2>5 DEF TypeOK
  <2>6. CASE ~ShouldServe(c)
    BY <2>1, <2>4, <2>6 DEF TypeOK
  <2> QED BY <2>5, <2>6
<1>5. inspecting' \subseteq Consumers
  BY DEF Poll, TypeOK
<1>6. NoSamples \in [Consumers -> 0..2]
  BY DEF NoSamples
<1>7. (filtered' = NoSamples /\ lapsed' = FALSE) \/ (filtered' = filtered /\ lapsed' = lapsed)
  BY DEF Poll
<1>8. filtered' \in [Consumers -> 0..2] /\ lapsed' \in BOOLEAN
  BY <1>6, <1>7 DEF TypeOK
<1> QED BY <1>2, <1>3, <1>4, <1>5, <1>8 DEF Poll, TypeOK

LEMMA AnswerType ==
    ASSUME TypeOK, NEW h \in handlers, NEW outcome \in Outcomes, Answer(h, outcome)
    PROVE  TypeOK'
<1>1. h \in Handler /\ h.consumer \in Consumers
  BY DEF TypeOK, Handler
<1>2. Held(h.consumer, outcome) \in Consumer
  BY <1>1, HeldType
<1>3. /\ consumers' \in [Consumers -> Consumer]
      /\ sent' \in [Consumers -> Reply]
      /\ announced' \subseteq Consumers
      /\ fed' \in Readings \cup {NoReading, NoSample}
  <2>1. CASE StaySilent(h, outcome)
    BY <1>2, <2>1 DEF StaySilent, TypeOK
  <2>2. CASE ReplyRaw(h, outcome)
    <3>1. h.inspection /\ ~MeterFailed(h.consumer, outcome)
      BY <2>2 DEF ReplyRaw
    <3>2. Raw(h.consumer, outcome) \in Instructions(h, outcome)
      BY <3>1 DEF Instructions, Steered
    <3>3. Sent(h, outcome, Raw(h.consumer, outcome)) \in Reply
      BY <3>2, BookedType
    <3> QED BY <1>2, <2>2, <3>3 DEF ReplyRaw, TypeOK
  <2>3. CASE ReplyInstruction(h, outcome)
    <3>1. PICK delta \in Instructions(h, outcome) :
            /\ consumers' = [consumers EXCEPT ![h.consumer] =
                                Booked(h, Bookable(h.consumer, outcome), delta)]
            /\ sent' = [sent EXCEPT ![h.consumer] = Sent(h, outcome, delta)]
      BY <2>3 DEF ReplyInstruction
    <3>2. /\ Booked(h, Bookable(h.consumer, outcome), delta) \in Consumer
          /\ Sent(h, outcome, delta) \in Reply
      BY BookedType
    <3>3. fed' \in Readings \cup {NoReading, NoSample}
      BY <1>2, <2>3 DEF ReplyInstruction, Steered, MeterFailed, TypeOK, Consumer
    <3>4. announced' \subseteq Consumers
      BY <1>1, <2>3 DEF ReplyInstruction, TypeOK
    <3> QED BY <3>1, <3>2, <3>3, <3>4 DEF TypeOK
  <2> QED BY <2>1, <2>2, <2>3 DEF Answer
<1>4. /\ handlers' \subseteq Handler
      /\ inflight' \subseteq Consumers
  BY DEF Answer, TypeOK, Discarded
<1>5. filtered' \in [Consumers -> 0..2]
  <2>1. filtered \in [Consumers -> 0..2] /\ filtered' = Filtered(h, outcome)
    BY DEF Answer, TypeOK
  <2>2. \A n \in 0..2 : (IF n < 2 THEN n + 1 ELSE 2) \in 0..2
    OBVIOUS
  <2> QED BY <2>1, <2>2 DEF Filtered
<1> QED BY <1>3, <1>4, <1>5 DEF Answer, TypeOK

LEMMA CleanupType ==
    ASSUME TypeOK, CleanupConsumers
    PROVE  TypeOK'
<1>1. Absent \in Consumer
  BY ConstantsAssumption DEF Absent, Consumer, Control, DefaultControl, Ages,
     NoInterval, DefaultPhase
<1>2. consumers' \in [Consumers -> Consumer]
  BY <1>1 DEF CleanupConsumers, TypeOK
<1>3. dedup' \in [Consumers -> Ages \cup {NoEntry}]
  BY DEF CleanupConsumers, TypeOK, Purged
<1> QED BY <1>2, <1>3, ConstantsAssumption
        DEF CleanupConsumers, TypeOK, AnnouncedAfter, InspectingAfter

LEMMA ChangeType ==
    ASSUME TypeOK, NEW c \in Consumers, NEW control \in Control, Change(c, control)
    PROVE  /\ consumers' \in [Consumers -> Consumer]
           /\ overrides' \in [Consumers -> Control]
<1>1. [GetConsumer(c) EXCEPT !.control = control] \in Consumer
  BY GetConsumerType DEF Consumer
<1> QED BY <1>1 DEF Change, Snapshot, TypeOK

LEMMA UserCommandType ==
    ASSUME TypeOK, NEW c \in Consumers, UserCommand(c)
    PROVE  TypeOK'
<1>1. GetConsumer(c).control \in Control
  BY GetConsumerType DEF Consumer
<1>2. ASSUME NEW value \in Settings, SetNumber(c, value) PROVE TypeOK'
  <2>1. [GetConsumer(c).control EXCEPT !.setting = value] \in Control
    BY <1>1 DEF Control
  <2>2. wanted' \in [Consumers -> Control]
    BY <1>2 DEF SetNumber, TypeOK, Control
  <2> QED BY <1>2, <2>1, <2>2, ChangeType DEF SetNumber, Change, TypeOK
<1>3. ASSUME NEW auto \in BOOLEAN, SetAutoTarget(c, auto) PROVE TypeOK'
  <2>1. [GetConsumer(c).control EXCEPT !.manual = ~auto] \in Control
    BY <1>1 DEF Control
  <2>2. wanted' \in [Consumers -> Control]
    BY <1>3 DEF SetAutoTarget, TypeOK, Control
  <2> QED BY <1>3, <2>1, <2>2, ChangeType DEF SetAutoTarget, Change, TypeOK
<1>4. ASSUME NEW active \in BOOLEAN, SetActive(c, active) PROVE TypeOK'
  <2>1. [GetConsumer(c).control EXCEPT !.active = active] \in Control
    BY <1>1 DEF Control
  <2>2. wanted' \in [Consumers -> Control]
    BY <1>4 DEF SetActive, TypeOK, Control
  <2> QED BY <1>4, <2>1, <2>2, ChangeType DEF SetActive, Change, TypeOK
<1> QED BY <1>2, <1>3, <1>4 DEF UserCommand

LEMMA TickType ==
    ASSUME TypeOK, Tick
    PROVE  TypeOK'
<1>1. consumers' \in [Consumers -> Consumer]
  <2> SUFFICES ASSUME NEW c \in Consumers
               PROVE  [consumers[c] EXCEPT !.age =
                          IF consumers[c].seen THEN Older(@) ELSE @] \in Consumer
    BY DEF Tick
  <2>1. consumers[c] \in Consumer /\ consumers[c].age \in Ages
    BY DEF TypeOK, Consumer
  <2>2. Older(consumers[c].age) \in Ages
    BY <2>1, OlderType
  <2> QED BY <2>1, <2>2 DEF Consumer
<1>2. handlers' \subseteq Handler
  <2> SUFFICES ASSUME NEW h \in handlers
               PROVE  [h EXCEPT !.age = @ + 1] \in Handler
    BY DEF Tick
  <2>1. h \in Handler /\ h.age < MeterTimeout
    BY DEF Tick, TypeOK
  <2> QED BY <2>1, ConstantsAssumption DEF Handler
<1>3. dedup' \in [Consumers -> Ages \cup {NoEntry}]
  BY OlderType DEF Tick, TypeOK
<1>4. lastServed' \in [Consumers -> 0..DedupeWindow]
  BY DedupeWindowAssumption DEF Tick, TypeOK
<1>5. sinceCleanup' \in 0..CleanupInterval
  BY ConstantsAssumption DEF Tick, TypeOK
<1> QED BY <1>1, <1>2, <1>3, <1>4, <1>5 DEF Tick, TypeOK

LEMMA NextType == TypeOK /\ [Next]_vars => TypeOK'
<1> SUFFICES ASSUME TypeOK, [Next]_vars PROVE TypeOK'
  OBVIOUS
<1>1. CASE \E c \in Consumers, phase \in Phases, power \in Powers : Poll(c, phase, power)
  BY <1>1, PollType
<1>2. CASE \E c \in Consumers : ReadEnds(c)
  BY <1>2, AnswerType DEF ReadEnds
<1>3. CASE CleanupConsumers
  BY <1>3, CleanupType
<1>4. CASE \E c \in Consumers : UserCommand(c)
  BY <1>4, UserCommandType
<1>5. CASE \E active \in BOOLEAN : SetActiveControl(active)
  BY <1>5 DEF SetActiveControl, TypeOK
<1>6. CASE Stop
  BY <1>6 DEF Stop, TypeOK
<1>7. CASE Start
  BY <1>7, ConstantsAssumption DEF Start, TypeOK
<1>8. CASE Tick
  BY <1>8, TickType
<1>9. CASE UNCHANGED vars
  BY <1>9 DEF vars, TypeOK
<1> QED BY <1>1, <1>2, <1>3, <1>4, <1>5, <1>6, <1>7, <1>8, <1>9 DEF Next

\* Every state the emulator reaches is well-formed: the records of ct002.py's
\* dicts, whatever order polls, reads, evictions and settings come in.
THEOREM TypeCorrect == Spec => []TypeOK
BY InitType, NextType, PTL DEF Spec

-----------------------------------------------------------------------------
(* The in-flight set. *)

LEMMA NextInflight == TypeOK /\ InflightIsParked /\ [Next]_vars => InflightIsParked'
<1> SUFFICES ASSUME TypeOK, InflightIsParked, [Next]_vars PROVE InflightIsParked'
  OBVIOUS
<1> USE DEF InflightIsParked
<1>1. ASSUME NEW c \in Consumers, NEW phase \in Phases, NEW power \in Powers,
             Poll(c, phase, power)
      PROVE  InflightIsParked'
  <2> DEFINE inspection == phase = Unassigned
             old == Overlapped(inspection)
             new(t) == [task |-> t, consumer |-> c, power |-> power,
                        inspection |-> inspection, swept |-> Swept, age |-> 0]
  <2>1. /\ inflight = {h.consumer : h \in old}
        /\ \A g, h \in old : g.consumer = h.consumer => g = h
    <3> HIDE DEF inspection
    <3>1. /\ \A h \in old : \E g \in handlers :
                /\ h = IF inspection THEN [g EXCEPT !.swept = TRUE] ELSE g
                /\ h.consumer = g.consumer
          /\ \A g \in handlers : \E h \in old : h.consumer = g.consumer
      BY OverlappedHandlers
    <3> HIDE DEF old
    <3>2. {h.consumer : h \in old} = {h.consumer : h \in handlers}
      BY <3>1
    <3>3. ASSUME NEW g \in old, NEW h \in old, g.consumer = h.consumer
          PROVE  g = h
      <4>1. PICK f \in handlers : /\ g = IF inspection THEN [f EXCEPT !.swept = TRUE] ELSE f
                                  /\ g.consumer = f.consumer
        BY <3>1
      <4>2. PICK k \in handlers : /\ h = IF inspection THEN [k EXCEPT !.swept = TRUE] ELSE k
                                  /\ h.consumer = k.consumer
        BY <3>1
      <4>3. f = k
        BY <3>3, <4>1, <4>2
      <4> QED BY <4>1, <4>2, <4>3
    <3> QED BY <3>2, <3>3
  <2>2. CASE ~ShouldServe(c)
    <3>1. handlers' = old /\ inflight' = inflight
      BY <1>1, <2>2 DEF Poll
    <3> HIDE DEF old
    <3> QED BY <2>1, <3>1
  <2>3. CASE ShouldServe(c)
    <3>1. PICK t \in Tasks : handlers' = old \cup {new(t)} /\ inflight' = inflight \cup {c}
      BY <1>1, <2>3 DEF Poll
    <3>2. c \notin inflight
      BY <2>3 DEF ShouldServe
    <3>3. new(t).consumer = c
      OBVIOUS
    <3> HIDE DEF old, new
    <3>4. \A h \in old : h.consumer # c
      BY <2>1, <3>2
    <3>5. inflight' = {h.consumer : h \in handlers'}
      BY <2>1, <3>1, <3>3
    <3>6. \A g, h \in handlers' : g.consumer = h.consumer => g = h
      BY <2>1, <3>1, <3>3, <3>4
    <3> QED BY <3>5, <3>6
  <2> QED BY <2>2, <2>3
<1>2. ASSUME NEW h \in handlers, NEW outcome \in Outcomes, Answer(h, outcome)
      PROVE  InflightIsParked'
  <2>1. handlers' = handlers \ {h} /\ inflight' = inflight \ {h.consumer}
    BY <1>2 DEF Answer, Discarded
  <2>2. \A g \in handlers \ {h} : g.consumer # h.consumer
    OBVIOUS
  <2>3. {g.consumer : g \in handlers \ {h}} = {g.consumer : g \in handlers} \ {h.consumer}
    BY <2>2
  <2>4. inflight' = {g.consumer : g \in handlers'}
    BY <2>1, <2>3
  <2>5. \A f, g \in handlers' : f.consumer = g.consumer => f = g
    BY <2>1
  <2> QED BY <2>4, <2>5
<1>3. CASE Tick
  <2> DEFINE aged(h) == [h EXCEPT !.age = @ + 1]
  <2>1. \A h \in handlers : aged(h).consumer = h.consumer
    BY DEF TypeOK, Handler
  <2>2. handlers' = {aged(h) : h \in handlers} /\ inflight' = inflight
    BY <1>3 DEF Tick
  <2> HIDE DEF aged
  <2>3. {g.consumer : g \in handlers'} = {h.consumer : h \in handlers}
    BY <2>1, <2>2
  <2>4. \A g, h \in handlers' : g.consumer = h.consumer => g = h
    BY <2>1, <2>2
  <2> QED BY <2>2, <2>3, <2>4
<1>4. CASE Stop
  BY <1>4 DEF Stop
<1>5. CASE CleanupConsumers
  BY <1>5 DEF CleanupConsumers
<1>6. CASE \E c \in Consumers : UserCommand(c)
  BY <1>6 DEF UserCommand, SetNumber, SetAutoTarget, SetActive, Change
<1>7. CASE \E active \in BOOLEAN : SetActiveControl(active)
  BY <1>7 DEF SetActiveControl
<1>8. CASE Start
  BY <1>8 DEF Start
<1>9. CASE UNCHANGED vars
  BY <1>9 DEF vars
<1> QED BY <1>1, <1>2, <1>3, <1>4, <1>5, <1>6, <1>7, <1>8, <1>9 DEF Next, ReadEnds

\* At most one handler waits for the meter on behalf of a battery, and the
\* in-flight set says which: no interleaving of polls, late reads, evictions and
\* shutdowns lets a second correction onto the wire for one measurement.
THEOREM OneHandlerPerBattery == Spec => []InflightIsParked
<1>1. Init => InflightIsParked
  BY DEF Init, InflightIsParked
<1> QED BY <1>1, TypeCorrect, NextInflight, PTL DEF Spec

-----------------------------------------------------------------------------
(* Eviction and the parked handlers. *)

\* A parked handler's battery is known, has polled, and its report is no older
\* than the handler: the poll that parked the handler refreshed it.
ParkedIsFresh ==
    \A h \in handlers :
        /\ consumers[h.consumer].known
        /\ consumers[h.consumer].seen
        /\ consumers[h.consumer].age <= h.age

\* The TTL of a consumer is never shorter than the longest meter read.
LEMMA TtlBound ==
    ASSUME TtlOutlastsRead, NEW r \in Consumer
    PROVE  TtlTenths(r) \in Int /\ TtlTenths(r) >= 10 * MeterTimeout
BY ConstantsAssumption DEF TtlOutlastsRead, TtlTenths, Consumer, NoInterval, AdaptiveTtl

\* So no battery a handler works for is stale.
LEMMA ParkedNotStale ==
    ASSUME TtlOutlastsRead, TypeOK, ParkedIsFresh, NEW h \in handlers
    PROVE  h.consumer \notin Stale
<1>1. h.consumer \in Consumers /\ h.age \in Nat /\ h.age <= MeterTimeout
  BY ConstantsAssumption DEF TypeOK, Handler
<1>2. consumers[h.consumer] \in Consumer
  BY <1>1 DEF TypeOK
<1>3. consumers[h.consumer].age \in Nat /\ consumers[h.consumer].age <= MeterTimeout
  BY <1>1, <1>2, ConstantsAssumption DEF ParkedIsFresh, Consumer, Ages
<1>4. ~(10 * consumers[h.consumer].age > TtlTenths(consumers[h.consumer]))
  BY <1>2, <1>3, TtlBound, ConstantsAssumption
<1> QED BY <1>4 DEF Stale, ConsumerExpired

\* What the property rests on.
PresenceInv == TypeOK /\ InflightIsParked /\ ParkedIsFresh /\ AnnouncedIsLive

LEMMA PollPresence ==
    ASSUME PresenceInv, NEW c \in Consumers, NEW phase \in Phases,
           NEW power \in Powers, Poll(c, phase, power)
    PROVE  ParkedIsFresh' /\ AnnouncedIsLive'
<1>1. /\ consumers' = [consumers EXCEPT ![c] = Reported(c, phase, power)]
      /\ Reported(c, phase, power).known
      /\ Reported(c, phase, power).seen
      /\ Reported(c, phase, power).age = 0
  BY ReportedType DEF Poll, PresenceInv
<1>2. ASSUME NEW h \in handlers'
      PROVE  /\ h.consumer \in Consumers /\ h.age \in Nat
             /\ \/ \E g \in handlers : h.consumer = g.consumer /\ h.age = g.age
                \/ h.consumer = c
  <2>1. handlers' \subseteq Handler
    BY PollType DEF PresenceInv, TypeOK
  <2>2. h \in Overlapped(phase = Unassigned) \/ h.consumer = c
    BY DEF Poll
  <2>3. h \in Overlapped(phase = Unassigned)
           => \E g \in handlers : h.consumer = g.consumer /\ h.age = g.age
    BY OverlappedHandlers DEF PresenceInv
  <2>4. h.consumer \in Consumers /\ h.age \in Nat
    BY <2>1, ConstantsAssumption DEF Handler
  <2> QED BY <2>2, <2>3, <2>4
<1>3. ParkedIsFresh'
  BY <1>1, <1>2 DEF ParkedIsFresh, PresenceInv, TypeOK
<1>4. AnnouncedIsLive'
  BY <1>1 DEF AnnouncedIsLive, PresenceInv, TypeOK, Poll
<1> QED BY <1>3, <1>4

\* A read that ends keeps the Consumer known, seen and as old as it was.
LEMMA HeldKnown ==
    ASSUME TypeOK, NEW c \in Consumers, NEW outcome, consumers[c].known
    PROVE  /\ Held(c, outcome).known
           /\ Held(c, outcome).seen = consumers[c].seen
           /\ Held(c, outcome).age = consumers[c].age
           /\ Bookable(c, outcome) = Held(c, outcome)
BY DEF Held, GetConsumer, Bookable, TypeOK, Consumer

LEMMA AnswerPresence ==
    ASSUME PresenceInv, NEW h \in handlers, NEW outcome \in Outcomes, Answer(h, outcome)
    PROVE  ParkedIsFresh' /\ AnnouncedIsLive'
<1> DEFINE c == h.consumer
<1>1. c \in Consumers /\ consumers[c].known /\ consumers[c].seen
  BY DEF PresenceInv, ParkedIsFresh, TypeOK, Handler
<1>2. /\ Held(c, outcome).known
      /\ Held(c, outcome).seen
      /\ Held(c, outcome).age = consumers[c].age
      /\ Bookable(c, outcome) = Held(c, outcome)
      /\ Held(c, outcome) \in Consumer
  BY <1>1, HeldKnown, HeldType DEF PresenceInv
<1>3. PICK r \in Consumer :
        /\ consumers' = [consumers EXCEPT ![c] = r]
        /\ r.known /\ r.seen /\ r.age = consumers[c].age
  <2>1. CASE StaySilent(h, outcome) \/ ReplyRaw(h, outcome)
    BY <1>2, <2>1 DEF StaySilent, ReplyRaw
  <2>2. CASE ReplyInstruction(h, outcome)
    <3>1. PICK delta \in Instructions(h, outcome) :
            consumers' = [consumers EXCEPT ![c] = Booked(h, Bookable(c, outcome), delta)]
      BY <2>2 DEF ReplyInstruction
    <3>2. Booked(h, Bookable(c, outcome), delta) \in Consumer
      BY BookedType DEF PresenceInv
    <3>3. /\ Booked(h, Bookable(c, outcome), delta).known
          /\ Booked(h, Bookable(c, outcome), delta).seen
          /\ Booked(h, Bookable(c, outcome), delta).age = consumers[c].age
      BY <1>2 DEF Booked, Consumer
    <3> QED BY <3>1, <3>2, <3>3
  <2> QED BY <2>1, <2>2 DEF Answer
<1>4. announced' \subseteq announced \cup {c}
  BY DEF Answer, StaySilent, ReplyRaw, ReplyInstruction
<1>5. handlers' \subseteq handlers
  BY DEF Answer
<1>6. \A g \in handlers : g.consumer \in Consumers
  BY DEF PresenceInv, TypeOK, Handler
<1> HIDE DEF c
<1>7. \A d \in Consumers :
        /\ consumers[d].known => consumers'[d].known
        /\ consumers[d].seen => consumers'[d].seen
        /\ consumers'[d].age = consumers[d].age
  BY <1>1, <1>3 DEF PresenceInv, TypeOK
<1>8. ParkedIsFresh'
  BY <1>5, <1>6, <1>7 DEF ParkedIsFresh, PresenceInv
<1>9. AnnouncedIsLive'
  BY <1>1, <1>4, <1>7 DEF AnnouncedIsLive, PresenceInv, TypeOK
<1> QED BY <1>8, <1>9

LEMMA CleanupPresence ==
    ASSUME TtlOutlastsRead, PresenceInv, CleanupConsumers
    PROVE  ParkedIsFresh' /\ AnnouncedIsLive'
<1>1. \A h \in handlers : h.consumer \in Consumers \ Stale
  BY ParkedNotStale DEF PresenceInv, TypeOK, Handler
<1>2. \A c \in Consumers \ Stale : consumers'[c] = consumers[c]
  BY DEF CleanupConsumers
<1>3. handlers' = handlers /\ announced' = announced \ Stale
  BY DEF CleanupConsumers, AnnouncedAfter
<1>4. announced \subseteq Consumers
  BY DEF PresenceInv, TypeOK
<1>5. ParkedIsFresh'
  BY <1>1, <1>2, <1>3 DEF ParkedIsFresh, PresenceInv
<1>6. AnnouncedIsLive'
  BY <1>2, <1>3, <1>4 DEF AnnouncedIsLive, PresenceInv
<1> QED BY <1>5, <1>6

\* A setter creates the entry or changes its control state, nothing else.
LEMMA UserCommandPresence ==
    ASSUME PresenceInv, NEW c \in Consumers, UserCommand(c)
    PROVE  ParkedIsFresh' /\ AnnouncedIsLive'
<1>1. PICK control : Change(c, control)
  BY DEF UserCommand, SetNumber, SetAutoTarget, SetActive
<1> DEFINE r == [GetConsumer(c) EXCEPT !.control = control]
<1>2. GetConsumer(c) \in Consumer /\ GetConsumer(c).known
  BY GetConsumerType DEF PresenceInv
<1>3. r.known /\ r.seen = GetConsumer(c).seen /\ r.age = GetConsumer(c).age
  BY <1>2 DEF Consumer
<1>4. consumers' = [consumers EXCEPT ![c] = r] /\ UNCHANGED <<handlers, announced>>
  BY <1>1 DEF Change
<1>5. consumers[c].known => GetConsumer(c) = consumers[c]
  BY DEF GetConsumer
<1> HIDE DEF r
<1>6. \A d \in Consumers : consumers[d].known =>
        /\ consumers'[d].known
        /\ consumers'[d].seen = consumers[d].seen
        /\ consumers'[d].age = consumers[d].age
  BY <1>3, <1>4, <1>5 DEF PresenceInv, TypeOK
<1>7. \A h \in handlers : h.consumer \in Consumers
  BY DEF PresenceInv, TypeOK, Handler
<1>8. ParkedIsFresh'
  BY <1>4, <1>6, <1>7 DEF ParkedIsFresh, PresenceInv
<1>9. AnnouncedIsLive'
  BY <1>4, <1>6 DEF AnnouncedIsLive, PresenceInv, TypeOK
<1> QED BY <1>8, <1>9

LEMMA TickPresence ==
    ASSUME PresenceInv, Tick
    PROVE  ParkedIsFresh' /\ AnnouncedIsLive'
<1>1. \A c \in Consumers :
        /\ consumers'[c].known = consumers[c].known
        /\ consumers'[c].seen = consumers[c].seen
        /\ consumers'[c].age <= consumers[c].age + 1
  <2> SUFFICES ASSUME NEW c \in Consumers
               PROVE  /\ consumers'[c].known = consumers[c].known
                      /\ consumers'[c].seen = consumers[c].seen
                      /\ consumers'[c].age <= consumers[c].age + 1
    OBVIOUS
  <2>1. consumers[c] \in Consumer /\ consumers[c].age \in Ages
    BY DEF PresenceInv, TypeOK, Consumer
  <2>2. Older(consumers[c].age) <= consumers[c].age + 1
    BY <2>1, OlderType
  <2>3. consumers[c].age \in Int
    BY <2>1, ConstantsAssumption DEF Ages
  <2> QED BY <2>1, <2>2, <2>3 DEF Tick, Consumer
<1>2. \A c \in Consumers : consumers[c].age \in Int /\ consumers'[c].age \in Int
  BY TickType, ConstantsAssumption DEF PresenceInv, TypeOK, Consumer, Ages
<1>3. \A h \in handlers : h.consumer \in Consumers /\ h.age \in Int
        /\ [h EXCEPT !.age = @ + 1].consumer = h.consumer
        /\ [h EXCEPT !.age = @ + 1].age = h.age + 1
  BY ConstantsAssumption DEF PresenceInv, TypeOK, Handler
<1>4. ParkedIsFresh'
  <2> SUFFICES ASSUME NEW h \in handlers
               PROVE  LET g == [h EXCEPT !.age = @ + 1]
                      IN  /\ consumers'[g.consumer].known
                          /\ consumers'[g.consumer].seen
                          /\ consumers'[g.consumer].age <= g.age
    BY DEF ParkedIsFresh, Tick
  <2>1. /\ consumers[h.consumer].known
        /\ consumers[h.consumer].seen
        /\ consumers[h.consumer].age <= h.age
    BY DEF PresenceInv, ParkedIsFresh
  <2> QED BY <1>1, <1>2, <1>3, <2>1
<1>5. AnnouncedIsLive'
  BY <1>1 DEF AnnouncedIsLive, PresenceInv, TypeOK, Tick
<1> QED BY <1>4, <1>5

LEMMA NextPresence == TtlOutlastsRead /\ PresenceInv /\ [Next]_vars => PresenceInv'
<1> SUFFICES ASSUME TtlOutlastsRead, PresenceInv, [Next]_vars
             PROVE  ParkedIsFresh' /\ AnnouncedIsLive'
  BY NextType, NextInflight DEF PresenceInv
<1>1. CASE \E c \in Consumers, phase \in Phases, power \in Powers : Poll(c, phase, power)
  BY <1>1, PollPresence
<1>2. CASE \E c \in Consumers : ReadEnds(c)
  BY <1>2, AnswerPresence DEF ReadEnds
<1>3. CASE CleanupConsumers
  BY <1>3, CleanupPresence
<1>4. CASE \E c \in Consumers : UserCommand(c)
  BY <1>4, UserCommandPresence
<1>5. CASE \E active \in BOOLEAN : SetActiveControl(active)
  BY <1>5 DEF SetActiveControl, PresenceInv, ParkedIsFresh, AnnouncedIsLive
<1>6. CASE Stop
  BY <1>6 DEF Stop, PresenceInv, ParkedIsFresh, AnnouncedIsLive
<1>7. CASE Start
  BY <1>7 DEF Start, PresenceInv, ParkedIsFresh, AnnouncedIsLive
<1>8. CASE Tick
  BY <1>8, TickPresence
<1>9. CASE UNCHANGED vars
  BY <1>9 DEF vars, PresenceInv, ParkedIsFresh, AnnouncedIsLive
<1> QED BY <1>1, <1>2, <1>3, <1>4, <1>5, <1>6, <1>7, <1>8, <1>9 DEF Next

LEMMA InitPresence == Init => PresenceInv
<1> SUFFICES ASSUME Init PROVE PresenceInv
  OBVIOUS
<1>1. InflightIsParked /\ ParkedIsFresh /\ AnnouncedIsLive
  BY DEF Init, InflightIsParked, ParkedIsFresh, AnnouncedIsLive
<1> QED BY <1>1, InitType DEF PresenceInv

\* Where a meter read cannot outlast a battery's TTL, no battery is evicted under
\* its own handler.
THEOREM ParkedNeverEvicted ==
    ASSUME TtlOutlastsRead PROVE Spec => []ParkedIsKnown
<1>1. PresenceInv /\ [Next]_vars => PresenceInv'
  BY NextPresence
<1>2. PresenceInv => ParkedIsKnown
  BY DEF PresenceInv, ParkedIsFresh, ParkedIsKnown
<1> QED BY <1>1, <1>2, InitPresence, PTL DEF Spec

\* And then the event listener's view only ever lists batteries the cleanup pass
\* can still evict: no entity stays online for a battery that is gone.
THEOREM PresenceIsLive ==
    ASSUME TtlOutlastsRead PROVE Spec => []AnnouncedIsLive
<1>1. PresenceInv /\ [Next]_vars => PresenceInv'
  BY NextPresence
<1>2. PresenceInv => AnnouncedIsLive
  BY DEF PresenceInv
<1> QED BY <1>1, <1>2, InitPresence, PTL DEF Spec

-----------------------------------------------------------------------------
(* The dedupe window. *)

LEMMA NextDedupe ==
    ASSUME TypeOK, DedupeRemembers, [Next]_vars
    PROVE  DedupeRemembers'
<1> USE ConstantsAssumption, DedupeWindowAssumption
<1> DEFINE Counts(n) == n < DedupeWindow /\ (ConsumerTtl = AdaptiveTtl \/ n <= ConsumerTtl)
<1>a. DedupeRemembers => \A c \in Consumers :
          Counts(lastServed[c]) => dedup[c] \in 0..lastServed[c]
  BY DEF DedupeRemembers
<1>b. DedupeRemembers' <=> \A c \in Consumers :
          Counts(lastServed'[c]) => dedup'[c] \in 0..lastServed'[c]
  BY DEF DedupeRemembers
<1>c. \A n \in 0..DedupeWindow : Counts(n) => n < DedupeWindow
  OBVIOUS
<1>0. \A c \in Consumers : lastServed[c] \in 0..DedupeWindow /\ dedup[c] \in Int
  BY DEF TypeOK, Ages, NoEntry
<1>1. ASSUME NEW c \in Consumers, NEW phase \in Phases, NEW power \in Powers,
             Poll(c, phase, power)
      PROVE  DedupeRemembers'
  <2>1. dedup' = [dedup EXCEPT ![c] = IF Repeats(@) THEN Dropped(@) ELSE Accepted(@)]
    BY <1>1 DEF Poll
  <2>2. lastServed' = lastServed \/ (ShouldServe(c) /\ lastServed' = [lastServed EXCEPT ![c] = 0])
    BY <1>1 DEF Poll
  <2>3. \A d \in Consumers \ {c} : dedup'[d] = dedup[d] /\ lastServed'[d] = lastServed[d]
    BY <2>1, <2>2 DEF TypeOK
  <2>4. ASSUME Counts(lastServed'[c]) PROVE dedup'[c] \in 0..lastServed'[c]
    <3>1. CASE Repeats(dedup[c])
      <4>1. lastServed' = lastServed
        BY <2>2, <3>1 DEF ShouldServe
      <4>2. dedup'[c] = dedup[c]
        BY <2>1, <3>1 DEF Dropped, TypeOK
      <4>3. dedup[c] \in 0..lastServed[c]
        BY <1>a, <2>4, <4>1
      <4> QED BY <4>1, <4>2, <4>3
    <3>2. CASE ~Repeats(dedup[c])
      <4>1. lastServed'[c] \in 0..DedupeWindow
        BY <1>0, <2>2 DEF TypeOK
      <4>2. DedupeWindow > 0
        BY <2>4, <4>1
      <4>3. dedup'[c] = 0
        BY <2>1, <3>2, <4>2 DEF Accepted, TypeOK
      <4> HIDE DEF Counts
      <4>4. \A n \in 0..DedupeWindow : 0 \in 0..n
        OBVIOUS
      <4> QED BY <4>1, <4>3, <4>4, Zenon
    <3> QED BY <3>1, <3>2
  <2> QED BY <1>a, <1>b, <2>3, <2>4
<1>2. CASE CleanupConsumers
  <2>1. SUFFICES ASSUME NEW c \in Consumers, Counts(lastServed'[c])
                 PROVE  dedup'[c] \in 0..lastServed'[c]
    BY <1>b
  <2>2. lastServed'[c] = lastServed[c] /\ dedup'[c] = Purged(dedup[c], PurgeHorizon)
    BY <1>2 DEF CleanupConsumers
  <2>3. dedup[c] \in 0..lastServed[c]
    BY <1>a, <2>1, <2>2
  <2>4. ~(dedup[c] > PurgeHorizon)
    <3>1. CASE ConsumerTtl = AdaptiveTtl
      BY <1>0, <2>1, <2>2, <2>3, <3>1 DEF PurgeHorizon
    <3>2. CASE ConsumerTtl # AdaptiveTtl
      BY <1>0, <2>1, <2>2, <2>3, <3>2 DEF PurgeHorizon
    <3> QED BY <3>1, <3>2
  <2> QED BY <2>2, <2>3, <2>4 DEF Purged
<1>3. CASE Tick
  <2>1. SUFFICES ASSUME NEW c \in Consumers, Counts(lastServed'[c])
                 PROVE  dedup'[c] \in 0..lastServed'[c]
    BY <1>b
  <2>2. /\ lastServed'[c] = IF lastServed[c] < DedupeWindow THEN lastServed[c] + 1
                            ELSE DedupeWindow
        /\ dedup'[c] = IF dedup[c] = NoEntry THEN NoEntry ELSE Older(dedup[c])
    BY <1>3 DEF Tick
  <2>3. lastServed'[c] = lastServed[c] + 1 /\ Counts(lastServed[c])
    BY <1>0, <2>1, <2>2 DEF AdaptiveTtl
  <2>4. dedup[c] \in 0..lastServed[c]
    BY <1>a, <2>3
  <2>5. dedup[c] \in Ages
    BY <2>4 DEF TypeOK, NoEntry
  <2>6. Older(dedup[c]) \in Ages /\ Older(dedup[c]) <= dedup[c] + 1
    BY <2>5, OlderType
  <2> QED BY <1>0, <2>2, <2>3, <2>4, <2>6 DEF Ages, NoEntry
<1>4. CASE UNCHANGED <<dedup, lastServed>>
  BY <1>4 DEF DedupeRemembers
<1>5. ASSUME NEW c \in Consumers, ReadEnds(c) PROVE UNCHANGED <<dedup, lastServed>>
  BY <1>5 DEF ReadEnds, Answer
<1>6. ASSUME NEW c \in Consumers, UserCommand(c) PROVE UNCHANGED <<dedup, lastServed>>
  BY <1>6 DEF UserCommand, SetNumber, SetAutoTarget, SetActive, Change
<1>7. ASSUME Stop \/ Start \/ (\E active \in BOOLEAN : SetActiveControl(active))
      PROVE  UNCHANGED <<dedup, lastServed>>
  BY <1>7 DEF Stop, Start, SetActiveControl
<1> QED BY <1>1, <1>2, <1>3, <1>4, <1>5, <1>6, <1>7 DEF Next, vars

\* Two polls of one battery the emulator takes on are a dedupe window apart,
\* whatever the cleanup pass forgot in between; where CONSUMER_TTL is shorter than
\* the window, they are at least that TTL apart.
THEOREM WindowIsKept == Spec => []DedupeRemembers
<1>1. Init => DedupeRemembers
  BY DedupeWindowAssumption DEF Init, DedupeRemembers
<1>2. TypeOK /\ DedupeRemembers /\ [Next]_vars => DedupeRemembers'
  BY NextDedupe
<1> QED BY <1>1, <1>2, TypeCorrect, PTL DEF Spec

-----------------------------------------------------------------------------
(* The user's settings. *)

\* The snapshot always holds what the user wants, and so does the Consumer.
SettingsInv == overrides = wanted /\ SettingsSurvive

\* So does the entry _get_consumer creates.
LEMMA GetConsumerControl ==
    ASSUME TypeOK, SettingsInv, NEW c \in Consumers
    PROVE  GetConsumer(c).control = wanted[c]
BY DEF SettingsInv, SettingsSurvive, GetConsumer, ApplyOverride, Absent

\* A setter that stores `control` where the user wants exactly that.
LEMMA ChangeSettings ==
    ASSUME TypeOK, SettingsInv, NEW c \in Consumers, NEW control \in Control,
           Change(c, control), wanted' = [wanted EXCEPT ![c] = control]
    PROVE  SettingsInv'
<1>1. overrides' = wanted'
  BY DEF Change, Snapshot, SettingsInv
<1>2. [GetConsumer(c) EXCEPT !.control = control].control = control
  BY GetConsumerType DEF Consumer
<1>3. consumers' = [consumers EXCEPT ![c] = [GetConsumer(c) EXCEPT !.control = control]]
  BY DEF Change
<1> QED BY <1>1, <1>2, <1>3 DEF SettingsInv, SettingsSurvive, TypeOK

LEMMA NextSettings == TypeOK /\ SettingsInv /\ [Next]_vars => SettingsInv'
<1> SUFFICES ASSUME TypeOK, SettingsInv, [Next]_vars PROVE SettingsInv'
  OBVIOUS
<1>1. ASSUME NEW c \in Consumers, NEW phase \in Phases, NEW power \in Powers,
             Poll(c, phase, power)
      PROVE  SettingsInv'
  <2>1. Reported(c, phase, power).control = wanted[c]
    BY ReportedType, GetConsumerControl
  <2> QED BY <1>1, <2>1 DEF Poll, SettingsInv, SettingsSurvive, TypeOK
<1>2. ASSUME NEW h \in handlers, NEW outcome \in Outcomes, Answer(h, outcome)
      PROVE  SettingsInv'
  <2>1. h.consumer \in Consumers
    BY DEF TypeOK, Handler
  <2>2. GetConsumer(h.consumer).control = wanted[h.consumer]
    BY <2>1, GetConsumerControl
  <2>3. Held(h.consumer, outcome).known => Held(h.consumer, outcome).control = wanted[h.consumer]
    BY <2>1, <2>2, GetConsumerType DEF Held, SettingsInv, SettingsSurvive, Consumer
  <2>4. Bookable(h.consumer, outcome).control = wanted[h.consumer]
    BY <2>2, <2>3 DEF Bookable
  <2>5. UNCHANGED <<overrides, wanted>>
    BY <1>2 DEF Answer
  <2>6. CASE StaySilent(h, outcome) \/ ReplyRaw(h, outcome)
    BY <2>3, <2>5, <2>6 DEF StaySilent, ReplyRaw, SettingsInv, SettingsSurvive, TypeOK
  <2>7. CASE ReplyInstruction(h, outcome)
    <3>1. PICK delta \in Instructions(h, outcome) :
            consumers' = [consumers EXCEPT ![h.consumer] =
                             Booked(h, Bookable(h.consumer, outcome), delta)]
      BY <2>7 DEF ReplyInstruction
    <3>2. Bookable(h.consumer, outcome) \in Consumer
      BY <2>1, GetConsumerType, HeldType DEF Bookable
    <3>3. Booked(h, Bookable(h.consumer, outcome), delta).control = wanted[h.consumer]
      BY <2>4, <3>2 DEF Booked, Consumer
    <3> QED BY <2>5, <3>1, <3>3 DEF SettingsInv, SettingsSurvive, TypeOK
  <2> QED BY <1>2, <2>6, <2>7 DEF Answer
<1>3. CASE CleanupConsumers
  <2>1. ~Absent.known
    BY DEF Absent
  <2> QED BY <1>3, <2>1 DEF CleanupConsumers, SettingsInv, SettingsSurvive
<1>4. ASSUME NEW c \in Consumers, UserCommand(c) PROVE SettingsInv'
  <2>1. GetConsumer(c).control = wanted[c] /\ wanted[c] \in Control
    BY GetConsumerControl DEF TypeOK
  <2>2. ASSUME NEW value \in Settings, SetNumber(c, value) PROVE SettingsInv'
    <3>1. [GetConsumer(c).control EXCEPT !.setting = value] \in Control
      BY <2>1 DEF Control
    <3>2. wanted' = [wanted EXCEPT ![c] = [GetConsumer(c).control EXCEPT !.setting = value]]
      BY <2>1, <2>2 DEF SetNumber
    <3> QED BY <2>2, <3>1, <3>2, ChangeSettings DEF SetNumber
  <2>3. ASSUME NEW auto \in BOOLEAN, SetAutoTarget(c, auto) PROVE SettingsInv'
    <3>1. [GetConsumer(c).control EXCEPT !.manual = ~auto] \in Control
      BY <2>1 DEF Control
    <3>2. wanted' = [wanted EXCEPT ![c] = [GetConsumer(c).control EXCEPT !.manual = ~auto]]
      BY <2>1, <2>3 DEF SetAutoTarget
    <3> QED BY <2>3, <3>1, <3>2, ChangeSettings DEF SetAutoTarget
  <2>4. ASSUME NEW active \in BOOLEAN, SetActive(c, active) PROVE SettingsInv'
    <3>1. [GetConsumer(c).control EXCEPT !.active = active] \in Control
      BY <2>1 DEF Control
    <3>2. wanted' = [wanted EXCEPT ![c] = [GetConsumer(c).control EXCEPT !.active = active]]
      BY <2>1, <2>4 DEF SetActive
    <3> QED BY <2>4, <3>1, <3>2, ChangeSettings DEF SetActive
  <2> QED BY <1>4, <2>2, <2>3, <2>4 DEF UserCommand
<1>5. CASE Tick
  <2>1. \A c \in Consumers : /\ consumers'[c].known = consumers[c].known
                             /\ consumers'[c].control = consumers[c].control
    BY <1>5 DEF Tick, TypeOK, Consumer
  <2>2. UNCHANGED <<overrides, wanted>>
    BY <1>5 DEF Tick
  <2> QED BY <2>1, <2>2 DEF SettingsInv, SettingsSurvive
<1>6. CASE UNCHANGED <<consumers, overrides, wanted>>
  BY <1>6 DEF SettingsInv, SettingsSurvive
<1>7. ASSUME Stop \/ Start \/ (\E active \in BOOLEAN : SetActiveControl(active))
      PROVE  UNCHANGED <<consumers, overrides, wanted>>
  BY <1>7 DEF Stop, Start, SetActiveControl
<1> QED BY <1>1, <1>2, <1>3, <1>4, <1>5, <1>6, <1>7 DEF Next, ReadEnds, vars

\* A setting sticks to the battery: through every eviction and return, and
\* through a reply that lands after the eviction, the Consumer carries what the
\* user last asked for.
THEOREM SettingsStick == Spec => []SettingsSurvive
<1>1. Init => SettingsInv
  BY DEF Init, SettingsInv, SettingsSurvive, Absent
<1>2. SettingsInv => SettingsSurvive
  BY DEF SettingsInv
<1> QED BY <1>1, <1>2, TypeCorrect, NextSettings, PTL DEF Spec

-----------------------------------------------------------------------------
(* What the balancer and a detecting battery are given. *)

\* Every battery is served by some meter.
EveryClientMatched == Unmatched \notin Outcomes

LEMMA NextMeasured ==
    ASSUME EveryClientMatched, TypeOK, FedIsMeasured, DetectingSeesTheMeter, [Next]_vars
    PROVE  FedIsMeasured' /\ DetectingSeesTheMeter'
<1> USE DEF FedIsMeasured, DetectingSeesTheMeter
<1>1. ASSUME NEW h \in handlers, NEW outcome \in Outcomes, Answer(h, outcome)
      PROVE  FedIsMeasured' /\ DetectingSeesTheMeter'
  <2>1. h.consumer \in Consumers
    BY DEF TypeOK, Handler
  <2>2. ~MeterFailed(h.consumer, outcome) =>
            /\ Held(h.consumer, outcome).values \in Readings
            /\ outcome # Raised
    <3>1. SUFFICES ASSUME outcome # Raised
                   PROVE  Held(h.consumer, outcome).values = outcome
      BY ConstantsAssumption DEF MeterFailed, EveryClientMatched
    <3>2. outcome \in Readings \cup {NonFinite}
      BY <3>1, ConstantsAssumption DEF EveryClientMatched
    <3> QED BY <2>1, <3>2, GetConsumerType DEF Held, Consumer
  <2>3. CASE StaySilent(h, outcome)
    BY <2>3 DEF StaySilent
  <2>4. CASE ReplyRaw(h, outcome)
    <3>1. Sent(h, outcome, Raw(h.consumer, outcome)).measured
      BY <2>2, <2>4 DEF ReplyRaw, Sent
    <3> QED BY <2>4, <3>1 DEF ReplyRaw, TypeOK
  <2>5. CASE ReplyInstruction(h, outcome)
    <3>1. PICK delta \in Instructions(h, outcome) :
            sent' = [sent EXCEPT ![h.consumer] = Sent(h, outcome, delta)]
      BY <2>5 DEF ReplyInstruction
    <3>2. Sent(h, outcome, delta).kind = "instruction"
      BY <2>5 DEF ReplyInstruction, Sent
    <3>3. DetectingSeesTheMeter'
      BY <3>1, <3>2 DEF TypeOK
    <3>4. FedIsMeasured'
      BY <2>2, <2>5 DEF ReplyInstruction, Steered
    <3> QED BY <3>3, <3>4
  <2> QED BY <1>1, <2>3, <2>4, <2>5 DEF Answer
<1>2. CASE UNCHANGED <<fed, sent>>
  BY <1>2
<1>3. ASSUME NEW c \in Consumers, UserCommand(c) PROVE UNCHANGED <<fed, sent>>
  BY <1>3 DEF UserCommand, SetNumber, SetAutoTarget, SetActive, Change
<1>4. ASSUME \/ \E c \in Consumers, phase \in Phases, power \in Powers : Poll(c, phase, power)
             \/ CleanupConsumers \/ Stop \/ Start \/ Tick
             \/ \E active \in BOOLEAN : SetActiveControl(active)
      PROVE  UNCHANGED <<fed, sent>>
  BY <1>4 DEF Poll, CleanupConsumers, Stop, Start, Tick, SetActiveControl
<1> QED BY <1>1, <1>2, <1>3, <1>4 DEF Next, ReadEnds, vars

LEMMA MeasuredAlways ==
    ASSUME EveryClientMatched
    PROVE  Spec => [](FedIsMeasured /\ DetectingSeesTheMeter)
<1>1. Init => FedIsMeasured /\ DetectingSeesTheMeter
  BY DEF Init, FedIsMeasured, DetectingSeesTheMeter, NoReply
<1>2. TypeOK /\ FedIsMeasured /\ DetectingSeesTheMeter /\ [Next]_vars
        => (FedIsMeasured /\ DetectingSeesTheMeter)'
  BY NextMeasured
<1> QED BY <1>1, <1>2, TypeCorrect, PTL DEF Spec

\* Where every battery is covered by some meter, neither the hold sentinel nor a
\* non-finite reading ever reaches the stateful controller.
THEOREM BalancerFedMeasurements ==
    ASSUME EveryClientMatched PROVE Spec => []FedIsMeasured
BY MeasuredAlways, PTL

\* And a battery detecting its phase is answered with the meter or not at all.
THEOREM DetectionNeverHeld ==
    ASSUME EveryClientMatched PROVE Spec => []DetectingSeesTheMeter
BY MeasuredAlways, PTL

-----------------------------------------------------------------------------
(* The promise. *)

\* With one handler per battery, the debt is membership of the in-flight set.
LEMMA DebtIsInflight ==
    ASSUME InflightIsParked
    PROVE  OwedNow = [c \in Consumers |-> IF c \in inflight THEN 1 ELSE 0]
BY DEF OwedNow, Debt, InflightIsParked

LEMMA StepKeepsPromise ==
    ASSUME TypeOK, InflightIsParked, InflightIsParked', [Next]_vars
    PROVE  [Owed!Next]_OwedNow
<1>1. OwedNow = [c \in Consumers |-> IF c \in inflight THEN 1 ELSE 0]
  BY DebtIsInflight
<1>2. OwedNow' = [c \in Consumers |-> IF c \in inflight' THEN 1 ELSE 0]
  BY DEF OwedNow, Debt, InflightIsParked
<1>3. ASSUME NEW c \in Consumers, NEW phase \in Phases, NEW power \in Powers,
             Poll(c, phase, power)
      PROVE  [Owed!Next]_OwedNow
  <2>1. CASE ShouldServe(c)
    <3>1. inflight' = inflight \cup {c} /\ c \notin inflight
      BY <1>3, <2>1 DEF Poll, ShouldServe
    <3>2. Owed!Request(c)
      BY <1>1, <1>2, <3>1 DEF Owed!Request
    <3> QED BY <3>2 DEF Owed!Next
  <2>2. CASE ~ShouldServe(c)
    BY <1>1, <1>2, <1>3, <2>2 DEF Poll
  <2> QED BY <2>1, <2>2
<1>4. ASSUME NEW h \in handlers, NEW outcome \in Outcomes, Answer(h, outcome)
      PROVE  [Owed!Next]_OwedNow
  <2>1. h.consumer \in Consumers /\ h.consumer \in inflight
    BY DEF TypeOK, Handler, InflightIsParked
  <2>2. inflight' = inflight \ {h.consumer}
    BY <1>4 DEF Answer, Discarded
  <2>3. Owed!Settle(h.consumer)
    BY <1>1, <1>2, <2>1, <2>2 DEF Owed!Settle
  <2> QED BY <2>1, <2>3 DEF Owed!Next
<1>5. CASE Stop
  <2>1. inflight' = {}
    BY <1>5 DEF Stop, InflightIsParked
  <2>2. Owed!WriteOff
    BY <1>2, <2>1 DEF Owed!WriteOff
  <2> QED BY <2>2 DEF Owed!Next
<1>6. CASE UNCHANGED inflight
  BY <1>1, <1>2, <1>6
<1>7. ASSUME NEW c \in Consumers, UserCommand(c) PROVE UNCHANGED inflight
  BY <1>7 DEF UserCommand, SetNumber, SetAutoTarget, SetActive, Change
<1>8. ASSUME \/ CleanupConsumers \/ Start \/ Tick
             \/ \E active \in BOOLEAN : SetActiveControl(active)
      PROVE  UNCHANGED inflight
  BY <1>8 DEF CleanupConsumers, Start, Tick, SetActiveControl
<1> QED BY <1>3, <1>4, <1>5, <1>6, <1>7, <1>8 DEF Next, ReadEnds, vars

\* The emulator implements the safety part of the promise: a poll it takes on
\* opens one debt and one reply settles it, for every battery at every moment.
THEOREM ImplementsRequestReply == Spec => Owed!Safety
<1>1. Init => Owed!Init
  BY DEF Init, Owed!Init, OwedNow, Debt
<1>2. TypeOK /\ InflightIsParked /\ InflightIsParked' /\ [Next]_vars => [Owed!Next]_OwedNow
  BY StepKeepsPromise
<1> QED BY <1>1, <1>2, TypeCorrect, OneHandlerPerBattery, PTL DEF Spec, Owed!Safety

-----------------------------------------------------------------------------
(* The end of a sweep. *)

\* Nobody sweeps its output, and every sweep that ended was ended by a poll.
SweepsEnded == (\A c \in Consumers : ~Sweeping(consumers[c])) /\ ~lapsed

\* Why OneLateSample holds: a sweep is known to _inspecting, so the poll that ends
\* it resets; after the reset a battery has either a read of the sweep under way
\* and no sample, or at most the sample that read left.
SamplesInv ==
    /\ \A c \in Consumers : consumers[c].seen => consumers[c].known
    /\ \A c \in Consumers : Sweeping(consumers[c]) => c \in inspecting
    /\ SweepsEnded => \A c \in Consumers :
          /\ filtered[c] <= 1
          /\ (\E h \in handlers : h.consumer = c /\ h.swept) => filtered[c] = 0

\* The entry _get_consumer returns sweeps exactly if the battery does.
LEMMA GetConsumerSweep ==
    ASSUME TypeOK, SamplesInv, NEW c \in Consumers
    PROVE  /\ GetConsumer(c).known
           /\ Sweeping(GetConsumer(c)) <=> Sweeping(consumers[c])
<1>1. CASE consumers[c].known
  BY <1>1 DEF GetConsumer
<1>2. CASE ~consumers[c].known
  <2>1. ~consumers[c].seen
    BY <1>2 DEF SamplesInv
  <2>2. ~GetConsumer(c).seen
    BY <1>2 DEF GetConsumer, Absent
  <2> QED BY <2>1, <2>2, GetConsumerType DEF Sweeping
<1> QED BY <1>1, <1>2

\* A step that starts and ends no sweep, resets nothing and starts no read.
LEMMA SamplesKept ==
    ASSUME SamplesInv, UNCHANGED <<inspecting, filtered, lapsed>>,
           \A c \in Consumers :
              /\ consumers'[c].seen => consumers'[c].known
              /\ Sweeping(consumers'[c]) <=> Sweeping(consumers[c]),
           \A h \in handlers' : \E g \in handlers :
              g.consumer = h.consumer /\ (h.swept => g.swept)
    PROVE  SamplesInv'
<1>1. SweepsEnded' => SweepsEnded
  BY DEF SweepsEnded
<1>2. ASSUME NEW c \in Consumers, NEW h \in handlers', h.consumer = c, h.swept
      PROVE  \E g \in handlers : g.consumer = c /\ g.swept
  BY <1>2
<1> QED BY <1>1, <1>2 DEF SamplesInv

LEMMA PollSamples ==
    ASSUME TypeOK, SamplesInv, NEW c \in Consumers, NEW phase \in Phases,
           NEW power \in Powers, Poll(c, phase, power)
    PROVE  SamplesInv'
<1> DEFINE inspection == phase = Unassigned
<1>1. /\ consumers' = [consumers EXCEPT ![c] = Reported(c, phase, power)]
      /\ Reported(c, phase, power).known
      /\ Reported(c, phase, power).phase = phase
  BY ReportedType, GetConsumerType DEF Poll, Reported, Consumer
<1>2. inspecting' = IF inspection THEN inspecting \cup {c} ELSE inspecting \ {c}
  BY DEF Poll
<1>3. \A d \in Consumers : consumers'[d].seen => consumers'[d].known
  BY <1>1 DEF SamplesInv, TypeOK
<1>4. \A d \in Consumers : Sweeping(consumers'[d]) => d \in inspecting'
  BY <1>1, <1>2 DEF SamplesInv, TypeOK, Sweeping
<1>5. CASE ResetsFilters(c, inspection)
  <2>1. \A d \in Consumers : filtered'[d] = 0
    BY <1>5 DEF Poll, NoSamples
  <2> QED BY <1>3, <1>4, <2>1 DEF SamplesInv
<1>6. CASE ~ResetsFilters(c, inspection)
  <2>1. ~inspection /\ c \notin inspecting
    BY <1>6 DEF ResetsFilters
  <2>2. UNCHANGED <<filtered, lapsed>>
    BY <1>6 DEF Poll
  <2>3. SweepsEnded' => SweepsEnded /\ ~Swept
    BY <1>1, <2>1, <2>2 DEF SweepsEnded, SamplesInv, TypeOK, Swept
  <2>4. \A h \in handlers' : h \in handlers \/ h.swept = Swept
    BY <2>1 DEF Poll, Overlapped
  <2> QED BY <1>3, <1>4, <2>2, <2>3, <2>4 DEF SamplesInv
<1> QED BY <1>5, <1>6

\* A read that ends neither starts nor ends a sweep.
LEMMA AnswerSweep ==
    ASSUME TypeOK, SamplesInv, NEW h \in handlers, NEW outcome \in Outcomes,
           Answer(h, outcome), NEW d \in Consumers
    PROVE  /\ consumers'[d].seen => consumers'[d].known
           /\ Sweeping(consumers'[d]) <=> Sweeping(consumers[d])
<1> DEFINE c == h.consumer
<1>1. c \in Consumers
  BY DEF TypeOK, Handler
<1>2. /\ Held(c, outcome) \in Consumer
      /\ Held(c, outcome).seen => Held(c, outcome).known
      /\ Sweeping(Held(c, outcome)) <=> Sweeping(consumers[c])
  <2>1. CASE outcome \in Readings \cup {NonFinite}
    BY <1>1, <2>1, GetConsumerSweep, GetConsumerType, HeldType DEF Held, Consumer, Sweeping
  <2>2. CASE outcome \notin Readings \cup {NonFinite}
    BY <1>1, <2>2, HeldType DEF Held, SamplesInv
  <2> QED BY <2>1, <2>2
<1>3. /\ Bookable(c, outcome) \in Consumer
      /\ Bookable(c, outcome).known
      /\ Sweeping(Bookable(c, outcome)) <=> Sweeping(consumers[c])
  BY <1>1, <1>2, GetConsumerSweep, GetConsumerType DEF Bookable
<1>4. PICK r : /\ consumers' = [consumers EXCEPT ![c] = r]
               /\ r.seen => r.known
               /\ Sweeping(r) <=> Sweeping(consumers[c])
  <2>1. CASE StaySilent(h, outcome) \/ ReplyRaw(h, outcome)
    BY <1>2, <2>1 DEF StaySilent, ReplyRaw
  <2>2. CASE ReplyInstruction(h, outcome)
    <3>1. PICK delta \in Instructions(h, outcome) :
            consumers' = [consumers EXCEPT ![c] = Booked(h, Bookable(c, outcome), delta)]
      BY <2>2 DEF ReplyInstruction
    <3>2. /\ Booked(h, Bookable(c, outcome), delta).known
          /\ Sweeping(Booked(h, Bookable(c, outcome), delta))
                <=> Sweeping(Bookable(c, outcome))
      BY <1>3 DEF Booked, Consumer, Sweeping
    <3> QED BY <1>3, <3>1, <3>2
  <2> QED BY <2>1, <2>2 DEF Answer
<1> HIDE DEF c
<1> QED BY <1>1, <1>4 DEF SamplesInv, TypeOK

LEMMA AnswerSamples ==
    ASSUME TypeOK, InflightIsParked, SamplesInv, NEW h \in handlers,
           NEW outcome \in Outcomes, Answer(h, outcome)
    PROVE  SamplesInv'
<1>1. \A d \in Consumers : /\ consumers'[d].seen => consumers'[d].known
                           /\ Sweeping(consumers'[d]) <=> Sweeping(consumers[d])
  BY AnswerSweep
<1>2. /\ handlers' = handlers \ {h}
      /\ filtered' = Filtered(h, outcome)
      /\ UNCHANGED <<inspecting, lapsed>>
  BY DEF Answer
<1>3. SweepsEnded' => SweepsEnded
  BY <1>1, <1>2 DEF SweepsEnded
<1>4. ASSUME SweepsEnded, NEW d \in Consumers
      PROVE  /\ filtered'[d] <= 1
             /\ (\E g \in handlers' : g.consumer = d /\ g.swept) => filtered'[d] = 0
  <2>1. CASE h.swept /\ h.consumer = d
    <3>1. filtered[d] = 0
      BY <1>4, <2>1 DEF SamplesInv
    <3>2. \A g \in handlers' : g.consumer # d
      BY <1>2, <2>1 DEF InflightIsParked
    <3> QED BY <1>2, <2>1, <3>1, <3>2 DEF Filtered, TypeOK
  <2>2. CASE ~(h.swept /\ h.consumer = d)
    <3>1. filtered'[d] = filtered[d]
      BY <1>2, <2>2 DEF Filtered, TypeOK, Handler
    <3> QED BY <1>2, <1>4, <3>1 DEF SamplesInv
  <2> QED BY <2>1, <2>2
<1> QED BY <1>1, <1>2, <1>3, <1>4 DEF SamplesInv

LEMMA CleanupSamples ==
    ASSUME TypeOK, SamplesInv, CleanupConsumers
    PROVE  SamplesInv'
<1>1. \A c \in Consumers : consumers'[c] = IF c \in Stale THEN Absent ELSE consumers[c]
  BY DEF CleanupConsumers
<1>2. ~Absent.seen /\ ~Sweeping(Absent)
  BY DEF Absent, Sweeping
<1>3. inspecting' = inspecting \ Stale /\ UNCHANGED <<handlers, filtered>>
  BY DEF CleanupConsumers, InspectingAfter
<1>4. SweepsEnded' => SweepsEnded
  <2>1. lapsed' = (lapsed \/ \E c \in Stale : Sweeping(consumers[c]))
    BY DEF CleanupConsumers
  <2> QED BY <1>1, <2>1 DEF SweepsEnded
<1> QED BY <1>1, <1>2, <1>3, <1>4 DEF SamplesInv

LEMMA ChangeSamples ==
    ASSUME TypeOK, SamplesInv, NEW c \in Consumers, NEW control, Change(c, control)
    PROVE  SamplesInv'
<1> DEFINE r == [GetConsumer(c) EXCEPT !.control = control]
<1>1. consumers' = [consumers EXCEPT ![c] = r]
  BY DEF Change
<1>2. r.known /\ (Sweeping(r) <=> Sweeping(consumers[c]))
  BY GetConsumerSweep, GetConsumerType DEF Sweeping, Consumer
<1> HIDE DEF r
<1>3. \A d \in Consumers : /\ consumers'[d].seen => consumers'[d].known
                           /\ Sweeping(consumers'[d]) <=> Sweeping(consumers[d])
  BY <1>1, <1>2 DEF SamplesInv, TypeOK
<1>4. UNCHANGED <<inspecting, filtered, lapsed, handlers>>
  BY DEF Change
<1> QED BY <1>3, <1>4, SamplesKept

LEMMA TickSamples ==
    ASSUME TypeOK, SamplesInv, Tick
    PROVE  SamplesInv'
<1>1. \A c \in Consumers : /\ consumers'[c].known = consumers[c].known
                           /\ consumers'[c].seen = consumers[c].seen
                           /\ consumers'[c].phase = consumers[c].phase
  BY DEF Tick, TypeOK, Consumer
<1>2. \A c \in Consumers : /\ consumers'[c].seen => consumers'[c].known
                           /\ Sweeping(consumers'[c]) <=> Sweeping(consumers[c])
  BY <1>1 DEF SamplesInv, Sweeping
<1>3. \A h \in handlers : /\ [h EXCEPT !.age = @ + 1].consumer = h.consumer
                          /\ [h EXCEPT !.age = @ + 1].swept = h.swept
  BY DEF TypeOK, Handler
<1>4. \A h \in handlers' : \E g \in handlers :
          g.consumer = h.consumer /\ (h.swept => g.swept)
  BY <1>3 DEF Tick
<1>5. UNCHANGED <<inspecting, filtered, lapsed>>
  BY DEF Tick
<1> QED BY <1>2, <1>4, <1>5, SamplesKept

LEMMA NextSamples ==
    TypeOK /\ InflightIsParked /\ SamplesInv /\ [Next]_vars => SamplesInv'
<1> SUFFICES ASSUME TypeOK, InflightIsParked, SamplesInv, [Next]_vars PROVE SamplesInv'
  OBVIOUS
<1>1. CASE \E c \in Consumers, phase \in Phases, power \in Powers : Poll(c, phase, power)
  BY <1>1, PollSamples
<1>2. CASE \E c \in Consumers : ReadEnds(c)
  BY <1>2, AnswerSamples DEF ReadEnds
<1>3. CASE CleanupConsumers
  BY <1>3, CleanupSamples
<1>4. ASSUME NEW c \in Consumers, UserCommand(c) PROVE SamplesInv'
  <2>1. PICK control : Change(c, control)
    BY <1>4 DEF UserCommand, SetNumber, SetAutoTarget, SetActive
  <2> QED BY <2>1, ChangeSamples
<1>5. CASE Tick
  BY <1>5, TickSamples
<1>6. ASSUME \/ Stop \/ Start \/ UNCHANGED vars
             \/ \E active \in BOOLEAN : SetActiveControl(active)
      PROVE  SamplesInv'
  <2>1. /\ UNCHANGED <<consumers, inspecting, filtered, lapsed>>
        /\ handlers' \subseteq handlers
    BY <1>6 DEF Stop, Start, SetActiveControl, vars
  <2> QED BY <2>1 DEF SamplesInv, SweepsEnded
<1> QED BY <1>1, <1>2, <1>3, <1>4, <1>5, <1>6 DEF Next

\* Once every sweep has been ended by a poll, a battery's filter windows hold at
\* most the one sample whose read was under way at that poll, whatever the other
\* batteries' polls, reads, evictions and restarts did in between
\* (_sync_inspection_filters).
THEOREM SweepsLeaveOneSample == Spec => []OneLateSample
<1>1. Init => SamplesInv
  BY DEF Init, SamplesInv, SweepsEnded, NoSamples, Absent, Sweeping
<1>2. SamplesInv => OneLateSample
  BY DEF SamplesInv, SweepsEnded, OneLateSample
<1> QED BY <1>1, <1>2, TypeCorrect, OneHandlerPerBattery, NextSamples, PTL DEF Spec
=============================================================================
