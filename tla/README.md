# A verification project for AstraMeter

AstraMeter pretends to be an energy meter for Marstek storage batteries. It
reads a real meter, answers the polls each battery sends about once a second,
and so steers every battery: what a battery is told is a *correction it adds to
its own output*. With several batteries it decides which of them work and how
much each takes. The reference for every module here is the Python code under
`src/astrameter`; the ESPHome component is a C++ mirror of it, held in parity by
the repository's tests.

The project has three kinds of modules: specifications of components, `MC…`
modules and `.cfg` files that give TLC small instances of them, and `…Proofs`
modules with theorems TLAPS checks for every value of the constants.

## 1. Inventory of the system

| Part (`src/astrameter/…`) | State it keeps | Operations | What is hard, and what makes it correct |
|---|---|---|---|
| CT002/CT003 emulator (`ct002/ct002.py`) | a `Consumer` per battery, `_consumer_overrides`, `_inflight`, `_inspecting`, dedupe table, active/relay switch | a poll, one asyncio task per datagram; the cleanup pass; the user's setters; start and stop | a handler is parked in the meter read while polls, evictions, settings and shutdown run. One handler and one reply per battery; nobody evicted under a handler; presence reported truthfully; settings survive eviction; the controller is fed measurements only |
| Deduplicator (`request_dedupe.py`) | id → last time a poll was taken on | `should_process`, `purge_older_than` | purge horizon and window are configured apart; a purge must not let a repeat through |
| UDP server (`udp_server.py`) | the set of running tasks | datagram, stop | shutdown closes, cancels and awaits; handlers' `finally` must run |
| Balancer: rotation and probes (`ct002/balancer.py`) | `_priority`, `_deprioritized`, `_probe_state`, saturation scores, `_last_rotation`, decision cache | the pass of a poll, `force_rotation`, `remove_consumer`, `detach_from_auto_pool`, `reset_consumer` | rotations, swaps, probes and their rejections rewrite one order while batteries leave and return. The order lists every battery once; someone works; every exchange is tested and undone if it fails; nobody starves; a parked battery never keeps the lead |
| Balancer: saturation (`ct002/balancer.py`) | a score and a grace window per battery | scored in every poll, cleared and seeded by every change of role | commands of one role must not condemn a battery in the next; an empty battery must be found and a recovered one forgiven, by a score that shrinks the very commands it is judged by |
| Balancer: learned ceilings (`ct002/balancer.py`) | per battery and direction a ceiling, its age, a run of flat polls | tracked in every poll, applied to shares | a ceiling is only refuted by output it prevents |
| Balancer: allocation, standby reserve, sharing (`ct002/balancer.py`) | fade weights, the spill line and its direction, the idle set | part of every poll | rotation, probe, fade, reserve, minimum power and verdicts overlap in one poll; together they must cover the house and never push a battery through zero |
| Wire protocol (`ct002/protocol.py`, `ct002/controls.py`) | none | parse, build, checksum, range tables | length and checksum framing |
| Meter wrappers (`powermeter/wrappers/*`) | last value and time, one pending future, reads in flight, filter windows | read, passive read, reset | coalesced reads whose leader is cancelled; overlapping reads; stale values served on failure |
| Meter sources (`powermeter/*`) | connection, last message, a REST bootstrap beside it | connect, reconnect, push, read | values that outlive their connection; a bootstrap answer older than a push |
| Shelly emulator (`shelly/*`) | dedupe table, parked batteries, `_battery_last_seen`, `_inactive_batteries` | a JSON-RPC datagram, waiting out a push, the inactivity check | polls that pile up behind a slow meter; a battery that falls silent while its handler is parked |
| MQTT insights (`mqtt_insights/*`) | a bounded queue, published discovery and availability, registered devices, pending commands | events, commands, reconnect | lost, late and duplicated messages; the will; a topic shared by all settings that the service writes and reads; retained commands before registration |
| Main loop, meter pool (`main.py`, `meter_pool.py`) | running devices and meters, the restart event, the configuration in force | start, restart, reload, shutdown | restarts and stops at any moment of a start or an unwinding; what one cycle leaves to the next |
| Web dashboard, guard, config, status (`web_*.py`, `status/*`, `config/*`) | one config file; snapshots | HTTP handlers | little interleaving |
| Cloud reporting, vendor API, add-on client | last post, tokens | periodic HTTP | retries |
| Simulator, web front end, tools | — | — | not part of the running system |

How the parts interact: the UDP server starts a task per datagram and calls the
emulator's handler; the handler calls the deduplicator, awaits the meter chain
(`before_send`: pool → wrappers → source), then calls the balancer and the event
listener (MQTT insights). MQTT commands call the emulator's setters, which call
`reset_consumer`, `detach_from_auto_pool` or `force_rotation`. The supervisor in
`main.py` starts and cancels all of it, cycle by cycle. Everything runs on
one event loop: between two awaits a handler is atomic, at an await anything may
happen. `PROJECT.json` has the components with their status and every hazard with
the line where it bites.

## 2. The modules

### `CT002` (with `RequestDedupe`, `RequestReply`)

One action for each stretch of code between two awaits: `Poll` is
`_handle_request` up to the meter read, `Answer` from there to the reply and the
`finally`; `CleanupConsumers` is the pass of `_cleanup_loop`; `SetNumber`,
`SetAutoTarget`, `SetActive`, `SetActiveControl` are the setters; `Start`, `Stop`
the life cycle; `Tick` time. `consumers` holds the `Consumer` objects,
`handlers` the parked tasks with what they read before the await (the phase, the
output), `overrides` the snapshots that outlive eviction, `inflight`,
`inspecting` and `dedup` the sets of that name. History variables carry
what the properties speak about: `announced` (whom the event listener counts as
present), `fed` (what the balancer was given), `sent` (the last reply), `wanted`
(the user's last settings), `lastServed` (how long ago a poll was taken on), and
`filtered`: how many readings of a sweep the filter windows hold of those taken for a
battery's polls. A read is one of a sweep if any battery swept its output while it
was under way (`swept`), and enters the windows when it ends, whatever was reset
meanwhile; `lapsed` remembers a battery evicted in its sweep, which resets nothing.

A meter read ends in one of `Outcomes`: a reading, a non-finite one, an
exception, or no meter for this client. The allocation is any member of `Deltas`.

`RequestReply` is the abstract promise: one debt per battery, opened by a poll
taken on, settled by the reply; `CT002` implements it under the mapping
`OwedNow` (property `KeepsPromise`).

### `EfficiencyPool`

The pass of a poll (`_compute_efficiency_deprioritized`) stage by stage, in the
code's order: `Synced` (`_sync_pool`), `Resolutions` (`_resolve_probe_state` with
commit and reject), `Rotated`, `Reconsidered`, then `PassCached` or `PassDecided`
(`ActiveSlots`, `Swaps`, `HandsOver`, `Begun`). `Poll` is `compute_target` of an
automatic battery; `IdlePoll` the two early returns that answer before the pass.
`Evict`, `SetManual`, `Resume` and `ForceRotation` are the calls the emulator
makes; `StepAside`, `ComeBack`, `Pause` and `SetWeight` change only what the next
reports say, which is how the balancer finds out. Time is `sinceRotation` and the
probe's `age`, both capped at the threshold they are compared with. The demand
estimate, whether the candidate delivers, whether there is a surplus and the
saturation verdicts are inputs of each poll.

### `Saturation` and `Ceilings` (over `BatteryLoop`)

Each is one battery in a closed loop with the balancer's judgement of it. In
`Saturation` a `Poll` reports the output the last command led to, `Update` is
`SaturationTracker.update` with its grace window, stall escape, long gap and
excuses, `RoleChanges` lists every pair of a role and a score that a pass of this
or another battery's poll (`OthersPoll`) can leave, and `Command` commands the
battery in its new role. In `Ceilings` a `Poll` ages the ceilings, `TrackCeiling`
is `_track_ceiling` with the run of flat polls, `RetestDue` and `Wanted` the
share that stops at a ceiling or pushes past it, `Damp` what `_damp_oscillation` and
the pacing leave of it, and `Commanded` which path answers: the regulation, the fade
of a handoff (not damped, no retest) or the unloading of a spilling pool (damped, no
retest). The hunting score is a real number that a poll without a reversal lowers by
a fixed part; the model counts the polls of one sign in which it may still keep a
retest's 30 W under the 25 W a ceiling is judged by (`osc`, at most `OscFull`: about
34 with the default `osc_damp_decay` of 0.05; a decay of 0 would keep a hunted
battery damped for good), and lets such a poll leave any part of the command. In both the battery's physical
limit and what the pool leaves to it (`share`) change at any moment, the user
takes the battery away and returns it, and times are ages. The history variables
`earned` (`Saturation`), `able`, `bridged` and `wronged` (`Ceilings`) are what the
properties compare the verdicts with. The gain of the balance term is taken as 1, its
deadband, taper and boost are left out, and no `MAX_*_POWER` is set; `Saturation` leaves
out the damping as well. So `EmptyIsFound` says nothing of an empty battery asked for
less than the deadband on a covered grid. `BatteryLoop` has the battery and the
loop both share, over `Watts`, the arithmetic; `CeilingVerdicts` the ceilings with
what they promise, so that `SaturationProofs` can prove about both judgements: it
extends `Saturation` and takes `Ceilings` as an instance named `Learned`.

### `Sharing` and `AutoPool`

`Sharing` has the split as functions: the weighted shares, the water-fill
(`capped_weighted_share`), the minimum-power subset, all in exact fractions.
`AutoPool` is the automatic pool closed over the house: `Poll` is
`_compute_auto_target` whole — the fade (`Faded`), the reserve (recruiting,
holding, releasing, unloading), the probe's targets, charge-blind holds, minimum
power, shares, balancing, concentration and the clamps of `_emit` — after which
the battery delivers what it was told as far as it can and the meter shows the
rest. `CommitProbe` and `RejectProbe` are the two ends a probe has in a pool whose
batteries all stay: the fades go to the shares, or those displaced come back in
front. When the rotation moves on, when a probe is found to have failed and when a
battery is found empty are `EfficiencyPool`'s and `Saturation`'s subjects and happen
here at any time.

### `MeterChain`

One polled meter under `HealthTracking(Throttled(LastReading(source)))`, the order
in which `config_loader.py` nests them. `Enter` is a call through the whole chain
up to its first await, shared by `ControlRead` (a battery's handler, at most one
per battery since the emulator coalesces) and `ProbeRead` (the health loop, when
nobody has tried for `IdleThreshold`). `LeaderReads` is the end of the throttle's
sleep; `ControlReadEnds` everything from the source's answer to the caller,
followers included: between the future's result and a follower's return nothing
they read can change. `ProbeTimesOut` is the `asyncio.wait_for` of the probe and
the cancellation it sends down the chain. `PassiveRead`, `PassiveWakes` and
`PassiveReadEnds` are `get_passive_watts`: woken is a step of its own, because
other reads may end before a woken reader looks. `outage`, `quiet` and `cutOff` (the
last read of the source was cut off by the probe's timeout) are history variables. A time that is `None` is an age at its cap, which compares alike.
`SourceTimeout` is how long the source's own client waits.

### `PushMeter` and `Shelly`

`PushMeter` is the shared WebSocket loop (`ws_client.py`) with Home Assistant's
protocol on top: `Dials`, `Authenticates`, the subscription with its events and
the REST bootstrap, which fetches one entity after another in a task of its own
(`FetchMoves`, `FetchAnswered`, `FetchLands`, `FetchFails`); `Breaks` and `Drops`
separate the loss of a connection from the client's noticing it. `Shelly` extends
it with the emulator: `Poll` of a battery and port is `_handle_request` up to
`wait_for_next_message`, `Pushes` and `Answer` the wake-up and the reply,
`InactiveCheck` the loop that announces a silent battery as gone.

### `Presence` and `Settings`

Two sides of `mqtt_insights/service.py`, each with the broker. `Presence`: the
bounded queue, the publish loop (`HandleEvent`) with its throttle and its memory
of what this connection has published, `Connect` (under the service's one client id,
so that the broker ends the former session, publishes its will and applies nothing
more of its bytes) and `Announced`, messages on the wire at QoS 0, the will, and
the faults — a broken link whose bytes may still land, a broker that forgets, a
stop while connected, whose farewell is `Part` or, when nobody hears it,
`PartUnheard`, a stop while reconnecting, a crash and a new process. `phase` says
where the connection stands: down, announcing, serving, parting, stopped.
`Settings`: the one retained topic all settings of a device share. A message is the
settings it carries and whether it presses the button (`Over`, `Only`, `Valid` are
how one message covers another, a single setting, and what the device accepts);
`Listen` is `_listen_commands` with `_handle_device_command`, `Register` the
replay of what came early, `HomeAssistantWrites`, `DashboardWrites`,
`ButtonPressed` and `Cleared` the others who write.

### `Supervisor`

The supervising loop of `main.py` and one device cycle in it: meters started and
tested in order, MQTT insights, the devices with their Marstek binding, the
gather and its cancellation, the `finally` that unwinds, the reload in a thread,
the signal a dashboard restart raises, and a stop. A cancelled `gather` raises as
soon as the first of its tasks has ended and a second cancellation cuts a
`finally` short; both are modelled as asyncio behaves, since what a cycle leaves
to the next depends on them.

### Runs

| Run | Question | Instance |
|---|---|---|
| `CT002_lifecycle` | does the bookkeeping around the await hold through sweeps, failures, evictions and restarts, and how much of a sweep reaches the filters after it? | 2 batteries, 3 tasks, both kinds of phase, reads of up to 1 tick, TTL 1, window 1 |
| `CT002_returns` | do settings and the dedupe window survive the adaptive TTL and returns, is a silent battery reported gone, is every poll settled once? | 1 battery, 2 tasks, adaptive TTL (least and fallback 3 ticks), window 3, reads of up to 3 ticks, a cleanup pass and settings at any moment |
| `Pool_handoffs` | does someone work, is every exchange probed and undone on failure? | 3 batteries, every command, demands on both sides of one slot, interval and timeout of 1 tick, one battery that may stop following or, while it reports, be parked (`OneMayPark`), one at a time aside and one out (`OneOfEach`) |
| `Pool_turns` | do probes end, does everybody get a turn, does a parked battery give way? | 3 batteries with weights of zero and a half, a demand for one, interval 2, timeout 1 |
| `Saturation_verdicts` | is every verdict earned, is an empty battery found and a recovered one forgiven? | one battery, limits 0, 1 and 3, shares on both sides of zero, gaps of 0, 1 and 3 seconds around a long gap of 2 |
| `Ceilings_learned` | is a battery that follows ever capped, does a wrong ceiling last? | one battery, limits 6 and 11, wanted for 12 or −9, a least ceiling of 4, slices of −5 and 1 that wind it down fast and up slowly, gaps of 1 and 2 around a stall time of 2, damping that may withhold one push |
| `Reserve_overflow` | is the house covered once quiet, is the split fair, does the reserve give back first and never cross zero? | 3 batteries: one double-weighted that may empty, one with a minimum power, one DC-only; one wanted active; loads −1 and 4 |
| `Meter_reads` | does coalescing survive cancellation, does the throttle pace failures, is only an outage behind the throttle hidden, does every read end? | 2 batteries, the probe, 2 passive readers; no throttle and one of 2 ticks, timeouts of 1 tick |
| `Presence` | does the broker show who is there, and whether the service is? | 2 batteries, a queue of 2, up to 4 messages on the wire, 3 faults of every kind |
| `Settings` | do the device and the topic agree, does an undisturbed write stand, is a press pressed once, does the exchange of messages end? | 2 settings with 2 valid and one invalid value, 3 writes, 2 faults |
| `Shelly_push` | does a reading outlive its connection, is a push answered once, is a present battery watched? | one battery on two ports, two entities, one frame under way, timeouts of 1 and 2 ticks |
| `Supervisor` | does a cycle inherit from the last, is a restart lost, does a stop end the process? | 2 meters, a CT002 with a binding and a Shelly, 2 saves |

All runs pass. What the code does that its documentation or one would not
expect, and what therefore shapes the properties, is in section 4.

Type invariants, and a few invariants of a simple shape (`ParkedIsKnown`,
`FedIsMeasured`, `DetectingSeesTheMeter`, `AttemptsMoveForward`), are not in a `.cfg`: they
are proved for every instance (section 3), after TLC had confirmed them on these.

Bounds. Three batteries are the least for a pool in which a probe has an
active, a backup and an untouched member, and in which a pass can promote one of
two slots; for the reserve they are a head, a battery that carries and one that
waits. Intervals are one or two ticks: the code only compares elapsed
time with a threshold, so what matters is which of two deadlines falls first, and
the tick interleaves freely with everything else. `AgeCap` (and the caps on
`sinceRotation` and `age`) lie at or beyond every threshold they are compared
with, so saturating there changes no comparison. `MaxPollGap` bounds how slow a
cadence the adaptive TTL may learn. In `CT002_returns` the window of 3 is as long as
the purge horizon and the cleanup pass may run in every tick, so a purge meets entries
of every age in the window, and a read of 3 outlasts it, so that polls are coalesced
too. That needs a TTL of at least the window (a read longer than the TTL breaks the
presence properties, section 4); a `CONSUMER_TTL` below the window is the theorem's
(`WindowIsKept`). `EfficientPower` is 5 so that the fifth of
hysteresis is a whole number; demands 0 and 12 select one and two of three slots.
`Saturation` and `Ceilings` look at one battery because the code keeps both
states per battery and the others only act on it through roles and its share,
which here take every value at every moment; a unit of power is about 25 W, so
that `Push` (25 W) and `Flat` (15 W) keep their order and 2·`Flat` reaches
`Push`, and the score's four bands let two halves of evidence meet in the middle.
`Ceilings_learned` has the least ceiling at 4 of these units so that, as in the
code, 2·`Push` + `Release` stays below twice its distance from the margin (the
hypothesis of `WrongCeilingsFall`), slices with which a run of flat polls can bridge
a rest in which the battery dips and on which its commands reverse, so that it hunts,
and a time to live of 6, beyond what the retests need, so that a wrong ceiling does not
simply expire; a longer memory of hunting and polls in the same second are left to the
proofs.
In `MeterChain` two batteries are a leader and a follower, or two overlapping
reads; two passive readers are one that reads and one that waits for it; the
throttle of 2 outlasts the probe's timeout, so that the probe is cancelled asleep,
reading and following; `Horizon` lies beyond twice the source's timeout, the
longest a passive read can take. In `Presence` a queue of two is the least that
loses an event while a battery leaves and returns; the wire of 4 holds the
longest batch of a handler. Three writes and two faults in `Settings` let an
echo, a newer write and a reconnect cross. One battery on two ports is what the
Shelly's per-port coalescing tells apart. Two saves in `Supervisor` let one be
read and one fall into the reload.

Fairness. `CT002`: the clock, the cleanup task and the end of a meter
read — the event loop runs, and every source has a timeout; polls and the user
are never assumed. `EfficiencyPool`: the clock, and the polls of every battery that
counts as reporting — a battery that stops polling stops counting, since the
cleanup pass evicts it. `MeterChain`: the reads of the source end (every client
has a timeout), what is ready on the event loop runs, the probe's timeout fires,
and time passes however many reads come and go in one instant, which is strong
fairness of `Tick`; nobody is assumed to ask. `Saturation`: a battery in service
polls, not always in the same second and not always after a long gap, and some
poll leaves its role alone. `Settings`: the listener and spawned publishes run and the network
delivers; nobody is assumed to write or to reconnect. `Supervisor`: what is ready
runs, within a cycle and around it.

Every property has a mutant of the code it depends on, kept as an operator next
to the one it alters (`StillAnnounced`, `RejectedInPlace`, …); none is part of a
specification.

## 3. What is proved

`CT002Proofs`, for any sets of batteries, tasks, readings and settings:

- `TypeCorrect`, `OneHandlerPerBattery` (`inflight` is exactly the parked
  handlers, one per battery), `SettingsStick`, `ImplementsRequestReply` need no
  hypothesis beyond the assumption on the constants.
- `ParkedNeverEvicted` and `PresenceIsLive` assume `TtlOutlastsRead`: the TTL (its
  adaptive minimum) is at least the longest meter read; without it they fail
  (section 4).
- `WindowIsKept` (`DedupeRemembers`), for every TTL and window: an entry is as young
  as the last poll taken on and is kept while it is in the window, or for
  `CONSUMER_TTL` where that is shorter.
- `BalancerFedMeasurements` and `DetectionNeverHeld` assume every client has a
  meter; without it the first fails (section 4).
- `SweepsLeaveOneSample`: the invariant `OneLateSample`. `SamplesInv` says why the
  reads that outlive the reset are one per battery: whoever sweeps is in `inspecting`,
  so the poll that ends a sweep resets; from there a battery has either a read of the
  sweep under way and no sample in the windows, or at most the sample it left, and a
  second read of it would need a second handler (`InflightIsParked`).

`PresenceInv` is the strengthening for presence: with types and the in-flight
correspondence it says a parked battery is no older than its read, which together
with `TtlOutlastsRead` is why no pass can evict it, and why the handler's return
finds the battery it announces. `SettingsInv` adds that the snapshots equal what
the user wanted, without which a re-created battery could start from an older
setting. The refinement needs only that a second poll of a parked battery is
coalesced (`InflightIsParked`).

`EfficiencyPoolProofs`, for any finite pool, weights, demands and intervals:

- `TypeCorrect`, `ProbesTestHandoffs`, `SomeoneAlwaysRuns` from one inductive
  invariant `IInv`, the conjunction of `TypeOK`, `ProbeIsAHandoff` and `Covered`.
  They cannot be proved apart: that a rejected probe's rewritten order lists
  nobody twice *is* that the candidate did not run before the probe, and that it
  lists exactly the pool needs the backups to be the displaced batteries. The
  lemmas on orders (rotation, exchange, concatenation, prefix) and on the stages
  of a pass (`ResolutionsStage`, `RotatedStage`, `SlotsInPool`, `BegunIsHandoff`,
  `DecidedKeeps`) carry the argument; `Covered` says that the first of the order
  works, because there is always a slot.
- `RejectionGivesBack`: the action property `RejectionRestores`.
- `HandoffsAreProbed`: the action property `HandoffIsProbed`. Besides `IInv` it
  needs `Laid`: while nothing but polls has happened, the batteries at rest are the
  last of the order and the cached decision is this one; only then are the first of
  the new order, which the pass compares with, those that worked. `SyncKeepsRank`
  says that `_sync_pool` lets a battery out of the first *k* only if it is parked,
  and counting does the rest (`NoHandoverIsHarmless`). The statement first proposed
  had no exception for a parked battery; the proof failed there, and TLC then found
  the case (section 4).
- `ParkedLeadsOnce`: the action property `ParkedGivesWay`; `_sync_pool` puts a
  battery that is not parked in front (`SyncedHead`), and only a rotation or a
  rejection writes the order after it.

`MeterChainProofs`, for any tasks, throttles and timeouts:

- `TypeCorrect`; `FutureIsLed` and `ThrottlePaces` from one invariant `IInv`, the
  conjunction of `TypeOK`, `PendingIsLed` and `Paced`. `Paced` says that a sleeping
  leader's remaining nap and the age of the last read add up to the interval,
  unless that read was cut off by the probe's timeout; it is kept only because there
  is one leader, and a read's end resets the age only when that leader is not asleep.
  `ThrottlePaces` (`ThrottleHolds`) therefore excepts the one read after such a cut
  (section 4).
- `OutageIsRecorded`, `NewerAttemptStands`: the rule for recording passive reads
  is what carries both.

`SaturationProofs`, for any limits, shares, windows and gaps:

- `TypeCorrect`, and `ScoresAreEarned`. The score alone is not inductive: one update
  may count all the seconds since the last one, and a stalled grace window ends in
  a full score. So `Backed` says that what the score may still rise by is earned
  too, the seconds nobody judged and those of a window that runs, and `Idle` that a
  resting battery has neither a score nor a clock.
- Of the learned ceilings (`Learned`, the instance of `Ceilings`):
  `CeilingsTypeCorrect`; `FollowersAreNotCapped`, the action property
  `HealthyNotCapped`: between two polls of a flat run the output moves by less than
  a push unless the run bridges something; and `WrongCeilingsFall`, the invariant
  `RetestIsPrompt`. The count of polls at a wrong ceiling is not inductive; it takes
  `HeldAt`, which says where such a battery stands: at the ceiling within its margins,
  with a ceiling that nobody has confirmed since the second poll, a run of flat polls
  that lies behind it, and, past the retest interval and the polls its damping may
  spoil, one push further with every poll: a battery that is pushed at every poll is
  commanded in one direction, so its hunting score only falls. This theorem assumes `MarginsApart`: winding a battery down in one poll
  cannot take it from one direction's ceiling to the other's (80 W against 150 W with
  the code's constants).

`PresenceProofs`, for any batteries, queue, wire and faults: `TypeCorrect`,
`StatusFollows` (`StatusIsTrue`), `OfflineFollows` (`OfflineIsComing`) and
`RetainedFollows` (`RetainedIsTrue`), from `PresenceInv`. What the broker holds says
nothing while messages are under way; so the invariant speaks of the *last word* on
each topic: the last message of it on the wire, or the retained value when there is
none. `WireSpeaks` says that the last words are what the service remembers having
published on this connection, `QueueSpeaks` that the last queued event of a battery
says whether it is there, `MemorySpeaks` that without one the memory does, and
`GoneIsOver` that nothing of a former connection can show a battery that left;
`LinkSpeaks` has what is left of a connection that is gone. `RetainTopics` and the
lemmas on `LastWord` are facts about any retained topics.

`SettingsProofs`, for any settings, values, writers and faults: `TypeCorrect`;
`PressesAreReal` (`PressedOnce`), where the invariant counts the presses still on
their way, once each, and `ButtonsOnly` keeps presses out of everything the broker
repeats; `SettlesInAgreement` (`SettledAgrees`), from `Converges`: while connected, the
service is going to publish, is going to read, or has read what the topic carries;
`UndisturbedWriteStands` (`WriteStands`), from `Stands`: every setting of the write is
in view of the service or on the way to it, and nothing that is sent, retained or
unread contradicts it.

`DevicesProofs`, for the Shelly emulator and the main loop. For any list of entities,
batteries and ports: `ValuesOfThisLink`
from `MeterInv`, whose part `Sourced` says that every event on the wire and every
answer the bootstrap holds is a state of the present link, and `DownIsEmpty` that
a closed link leaves neither; `PresenceWatched` from `Watched` (a parked battery
was seen after the last inactivity check could give it up, because the timeout
outlasts a wait for a push); `RepliesAreNews` from `OneEach`, one handler per
battery and port. For any meters, devices and configurations:
`SupervisorTypeCorrect`,
`RestartTakesOver` from `Kept`, which adds that what is due was saved and that
nothing becomes due between the reading of the file and the clearing of the
event; `EachCycleStandsAlone` from `Apart`, which says what may stand at each
point of a cycle and of its unwinding as long as no cancel has cut a `finally`
short.

`AutoPoolProofs`, for any finite pool, limits, weights, minima, loads, probes and
faults (`AutoPoolAssumption` asks for an order that lists the pool, positive
weights, and naturals for the thresholds):

- The functions of `Sharing` for arbitrary arguments. Sums over sets, powers and the
  rounds of the two loops are recursive functions, and there is no induction rule to
  hand: what would be an induction is an argument about a least counterexample
  (`LeastSubset`, `LeastNumber`; `Upward` and `Iteration` are what the rest cites).
  `TotalPick` and `TotalSplit` say how a sum comes apart, whatever order the
  definition's choice takes the set in. `FilledIsFair`: the rounds of
  the water-fill keep `Balanced` (what is left is the total without the ceilings fixed)
  while the level only rises (`LevelRises`), so whoever is fixed early stays rightly
  fixed; `RoundsStop` says that a round that fixes nobody comes within as many rounds
  as there are batteries. `SharesCover`: nothing of the total is lost or doubled.
  `RunnersMeetTheirFloors`: the subset that runs leaves nobody under its least power.
- `TypeCorrect` from `Shape`, which adds to `TypeOK` that an empty battery delivers
  nothing, that a probe's candidate is a battery, that the reserve lists nobody twice
  and that its caps are naturals of batteries. Every operator of the poll has a lemma
  that types it; `ReorderType` says that an exchange has a first newcomer,
  `MovedToTailType` that a rotation keeps the order one of the whole pool.
- `FairAlways`: the invariant `WaterFillIsFair`, from `Shape` and `FilledIsFair`.
- `NeverCrosses`: the action property `NoCrossing`. `OnlyItsPoll` says that a battery's
  output moves in its own poll or where it runs empty; each path of that poll asks a
  spiller for something on the reserve's side, and `PacedStaysOnItsSide` that pacing
  and the DC clamp on the way to such a command end there or closer to zero.
- `ReserveGivesBackFirst`: the action property `GivesBackFirst`. `BehindGiveBack` is the
  last-in-first-out sum: the first battery of a stretch of the line gives back what
  those behind it cannot, so the whole line gives back all of an excess that it carries;
  the battery ahead is then asked for what it already delivers.

Assumptions on constants are named in the module that declares them
(`ConstantsAssumption`, `PoolAssumption`, `ChainAssumption`, …); TLC evaluates
them in every run.

Only model-checked: everything under fairness (`SilentBatteryLeaves`,
`KeepsPromise` in its live part, `ProbeEnds`, `EveryoneGetsATurn`, `EveryReadEnds`,
`EmptyIsFound`, `RecoveredIsForgiven`, `QuietsDown`, `StopEnds`) is beyond the
prover, which has no liveness rules for `WF` and no `ENABLED`; and
`SettledIsCovered`, the equilibrium of `AutoPool`. It holds to a unit only where the
numbers of the instance let it: how far the roundings of shares, corrections and
steps may leave the grid open grows with the pool and the weights, and a statement for
all constants would be another property.

## 4. Observed

What the code does and its documents, comments or tests deny or leave open,
each found with TLC or while writing the module. The properties name the case
they leave out.

*Emulator and rotation.*

- A battery is evicted while its handler waits for a meter slower than the TTL;
  booking the reply re-creates its entry with time stamp 0, which no cleanup pass
  ever expires, and announces it again: if it never polls again it stays
  *online* for good (`ct002.py:948`, `docs/mqtt-insights.md:430`). Hence
  `TtlOutlastsRead`.
- A coalesced poll refreshes a battery's output while its handler is parked; the
  correction is computed from the new output and booked on the old one
  (`ct002.py:1813`, `:278`).
- For a client that no meter's NETMASK covers the hook returns nothing, the read
  does not count as failed, and the `[0, 0, 0]` sentinel reaches the controller as
  a sample (`ct002.py:1783`, the comment at `:1776`).
- The rotation runs after the step that sinks parked batteries to the back of the
  order, so with one unparked battery in front a parked one becomes the head,
  works for that pass and is probed; a rejection can restore it
  (`balancer.py:3692`, `:3673`, `docs/ct002.md:262`). `ParkedGivesWay` is the
  weaker promise that holds.
- A battery evicted in the middle of a phase sweep leaves `_inspecting` without
  the reset its next committed-phase poll would have made, so its sweep stays in
  the filters' windows (`ct002.py:954`).
- A read that is under way at the last poll of a sweep outlives the reset that poll
  makes, and its reading enters the emptied windows when it ends: the docstring's "the
  control loop restarts from a baseline the sweep did not write" (`ct002.py:1563`)
  holds but for one such sample per battery. `OneLateSample` says that it is no more.
- With `CONSUMER_TTL` below the dedupe window the purge horizon is shorter than
  the window (`ct002.py:960`), against the comment above it ("safely past any
  per-consumer TTL and the dedupe window itself"), and a repeat may be taken on again
  after a TTL; `DedupeRemembers` names the case.
- An arrival in the pass of a due rotation counts into `previous_active`, so the
  exchange is not recognised as one and not probed (`balancer.py:3553`);
  `HandoffIsProbed` therefore speaks of passes over an unchanged pool.
- `previous_active` is read after `_sync_pool` has sent parked batteries to the back
  (`balancer.py:3551`, `:3633`): with a parked battery at work, in a pass that also
  needs fewer, the battery moved up counts as working already and takes over from
  one that follows without a probe. `HandoffIsProbed` names the case.
- A rejection's score of 1.0 is wiped in the same pass when the candidate goes to
  rest (`balancer.py:1432`, `:3607`); its place at the end of the order is what
  keeps it out.
- `force_rotation` with fewer than two eligible batteries returns after pruning
  the order and before clearing the probe (`balancer.py:2226`).

*Saturation, ceilings, allocation.*

- A spilling battery that becomes active loses its promotion's grace window in the
  same pass, which takes it out of the reserve; the stall clock runs on while a
  battery backs or probes, and before its first command (`balancer.py:937`).
- A push (25 W) is less than twice the flat band (30 W): a battery that dips to
  the edge of the band and follows the next push is still inside it and can be
  capped in a poll it followed; and a run of flat polls is not ended by a rest or
  a handoff (`balancer.py:1700`). `HealthyNotCapped` says what is left. Such a run may also
  confirm a wrong ceiling once more in the second poll the battery is held at it;
  `RetestIsPrompt` counts from there.
- While the reserve spills on discharge, a dip of the house below zero winds a
  DC-only active battery to nothing before any spiller gives back; during a probe
  only spillers give back.
- "The pool idles only when even one battery alone would run below its minimum"
  (`_below_min_power`, `balancer.py:2498`): with weights 0.1 and 1 and minima of 50
  and 80 W, 60 W leave both idle, though the first alone would run. `SettledIsCovered` has the case.

*Meters.*

- Once a throttled meter has answered, the throttle serves its last values for as
  long as the source fails, below the health wrapper: the meter stays *online*,
  and the emulator's zero hold for a failed read is never sent
  (`throttling.py:76`, `docs/mqtt-insights.md:238`). Without a throttle, or before
  the first answer, an outage is recorded (`OutageIsRecorded`).
- With a throttle longer than the probe's 5 s (`docs/powermeters.md` suggests 10)
  the probe times out behind a leader that sleeps and reports a working meter
  offline; when it leads itself, its cancellation ends the handlers of the
  batteries behind it without a reply, since `_call_before_send` catches
  `Exception` only (`service.py:1308`, `throttling.py:71`, `ct002.py:1452`).
- Cancelled while it reads the source for the throttle, that leader stamps no time
  (`throttling.py:69-72`), so the next caller reads the source at once, against the
  class's "enforcing a minimum interval between power meter readings"
  (`throttling.py:18`); only the read after that is paced again. `ThrottleHolds` names
  the case.
- A REST bootstrap answer older than a pushed event overwrites it: the check
  precedes the request and the write follows it (`homeassistant.py:226-247`), so a
  sensor that then stays constant is wrong until its next change. An entity with
  an unusable unit makes every read raise while `stream_online` stays true.

*MQTT.*

- A removal is lost with a broken link, a full queue or the process, and the
  battery's availability stays *online* (`service.py:677`; the comment at `:670`
  says removals are never dropped). `OfflineIsComing` names the exceptions.
- Every process draws a new client id, so the will of the process before may fall
  after its successor's *online*; a stop while the service sleeps before a
  reconnect publishes nothing.
- The echo of an earlier publish reverts a newer setting until the next echo;
  three alternating writes within two round trips lose one (`service.py:1158`). A
  dashboard write while disconnected is reverted on reconnect. The publish after a
  late registration may overwrite a write not yet read. An invalid value before
  registration replaces a valid one. Settings Home Assistant writes while
  AstraMeter is down push each other off the topic. `WriteStands` therefore speaks
  of a write made while nothing else was under way.

*Supervisor.*

- `asyncio.gather`, cancelled, raises as soon as the first device task has ended:
  a device that still unwinds (a CT002 awaiting its Marstek unsubscription) keeps
  its socket into the next cycle, whose device fails to start and stays absent —
  against the comment at `main.py:925`. A restart during
  `_bind_marstek_responder`, or between a Shelly's two ports, leaves the socket
  bound for good.
- A stop during the unwinding of a restart is swallowed by
  `suppress(CancelledError): await cycle` and a new cycle starts; the second
  cancellation may cut a `finally` short and leave meters running.
- A save and restart that arrive after the reload has read the file are cleared
  with the restart they interrupt (`main.py:885`); `RestartsAreKept` does not count
  such a restart, and covers those signalled at any other moment.
- A configuration with two devices on one UDP port, or a meter whose test fails,
  ends the process on a restart although `_reload_config` keeps a broken file from
  doing so; a device that fails to build ends the gather while the others go on
  over stopped meters.

## 5. Not modelled, and why

`CT002`: the fields of the reply, the status surface, the peak-shaving threshold
(an input of the balancer). `EfficiencyPool`: the demand estimate's filter (an
input); the charge and discharge thresholds are one constant, the direction's
hysteresis chooses between them. `AutoPool` and `Saturation`: the predictor, the import trim,
oscillation damping (which `Ceilings` has) and the tapering gains are filters on real numbers around
the same decisions, pacing is a flat cap, phases are summed. `Saturation`: the
score is four bands instead of a real number. `Presence`: readings on the state
topics. `Settings`: the per-battery commands, which have a topic each.
`Supervisor`: cloud reporting, the Marstek registration and what a reload hands
on in the settings. The rest of the inventory is listed with reasons in
`PROJECT.json`: parsing and HTTP plumbing, wording of discovery payloads, the
other meter sources (one request parsed into one reading), the simulator, the
C++ mirror.

## 6. Plan

1. Done: everything in section 2, with the proofs of section 3.
2. The chain as the meter of `CT002`, its longest read the TTL's rival, and
   `CT002` with `EfficiencyPool`: evictions and setters as joint steps, the
   listener's presence against the pool's membership and, through `Presence`,
   against the broker.
3. The predictor as bounds on how far its estimate may leave the meter, and
   `AutoPool` over batteries that follow late.
4. Proofs: a bound on the standing error of a settled pool in terms of its constants,
   from `SharesCover` and the bounds on rounding.
