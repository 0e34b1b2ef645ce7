------------------------------ MODULE Shelly ------------------------------
(***************************************************************************)
(* The Shelly emulator (shelly/shelly.py) over a push meter: a battery     *)
(* polls one of its UDP ports, the handler waits out one push of the meter *)
(* and answers with what the meter then holds (meter_pool.read_fresh).     *)
(* One handler per battery and port at most is parked; its other polls     *)
(* are dropped.  A battery that stays silent is announced as gone.         *)
(*                                                                         *)
(* The readings in the reply, the poll interval and the status surface are *)
(* left out; times are ages that stop growing where nothing tells them     *)
(* apart.                                                                  *)
(***************************************************************************)
EXTENDS PushMeter, RequestDedupe

CONSTANTS
    Batteries,
    Ports,              \* _udp_ports
    FreshTimeout,       \* FRESH_MESSAGE_TIMEOUT_S
    InactiveTimeout     \* BATTERY_INACTIVE_TIMEOUT_SECONDS

ASSUME ShellyAssumption ==
    /\ FreshTimeout \in Nat
    /\ InactiveTimeout \in Nat /\ InactiveTimeout > FreshTimeout

VARIABLES
    lastSeen,       \* _battery_last_seen, as an age, or Never
    inactive,       \* _inactive_batteries
    inflight,       \* _inflight_batteries
    dedup,          \* the deduplicator's table, by battery and port
    handlers,       \* the tasks parked in wait_for_next_message
    announced,      \* history: whom the event listener counts as present
    news            \* history: who was pushed something since its last reply

shellyVars == <<lastSeen, inactive, inflight, dedup, handlers, announced, news>>
vars == <<meterVars, shellyVars>>

Keys == Batteries \X Ports
Never == -1
Horizon == IF InactiveTimeout > DedupeWindow THEN InactiveTimeout ELSE DedupeWindow

Grown(age, most) == IF age = Never \/ age = most THEN age ELSE age + 1

-----------------------------------------------------------------------------
\* (mutant) a battery that comes back stays marked
SeenAsBefore(b) ==
    /\ lastSeen' = [lastSeen EXCEPT ![b] = 0]
    /\ UNCHANGED inactive

\* _track_battery_seen
Seen(b) ==
    /\ lastSeen' = [lastSeen EXCEPT ![b] = 0]
    /\ inactive' = inactive \ {b}

\* A datagram that does not decode is counted by the deduplicator all the same,
\* and so is one that is dropped because a handler is parked already.
Accepts(k) == dedup' = [dedup EXCEPT ![k] = IF Repeats(@) THEN Dropped(@) ELSE Accepted(@)]

\* (mutant) every poll gets its handler
ParksAlways(k) == TRUE

Parks(k) == k \notin inflight

\* The handler clears the event before it waits for the next one.
Poll(k, decodes) ==
    /\ Seen(k[1])
    /\ Accepts(k)
    /\ IF ~Repeats(dedup[k]) /\ decodes /\ Parks(k)
       THEN /\ handlers' = handlers \cup {[key |-> k, woken |-> FALSE, age |-> 0]}
            /\ inflight' = inflight \cup {k}
            /\ arrived' = FALSE
       ELSE UNCHANGED <<handlers, inflight, arrived>>
    /\ UNCHANGED <<server, connected, value, ready, fetch, since, announced, news>>

\* An event that sets _message_event wakes every handler that waits for it.
Rings(event) ==
    /\ handlers' = IF Heard(event) THEN {[h EXCEPT !.woken = TRUE] : h \in handlers}
                   ELSE handlers
    /\ news' = IF Heard(event) THEN Keys ELSE news
    /\ UNCHANGED <<lastSeen, inactive, inflight, dedup, announced>>

Pushes ==
    \/ EventArrives /\ Rings(Head(frames))
    \/ FetchLands /\ Rings(Told)
    \/ MeterQuietly /\ UNCHANGED shellyVars

\* Woken or out of patience, the handler answers with what the meter holds, or
\* not at all when an entity has no value.
Answer(h) ==
    /\ h.woken \/ h.age = FreshTimeout
    /\ handlers' = handlers \ {h}
    /\ inflight' = inflight \ {h.key}
    /\ IF Usable(value)
       THEN /\ announced' = announced \cup {h.key[1]}
            /\ news' = news \ {h.key}
       ELSE UNCHANGED <<announced, news>>
    /\ UNCHANGED <<meterVars, lastSeen, inactive, dedup>>

Lapses(b) == lastSeen[b] = InactiveTimeout

\* One turn of _inactive_check_loop.
InactiveCheck ==
    LET gone == {b \in Batteries : Lapses(b) /\ b \notin inactive}
    IN  /\ inactive' = inactive \cup gone
        /\ announced' = announced \ gone
        /\ dedup' = [k \in Keys |-> Purged(dedup[k], Horizon)]
        /\ UNCHANGED <<meterVars, lastSeen, inflight, handlers, news>>

\* Time passes.  A handler that has waited long enough is not kept waiting.
Tick ==
    /\ \A h \in handlers : h.age < FreshTimeout
    /\ handlers' = {[h EXCEPT !.age = @ + 1] : h \in handlers}
    /\ lastSeen' = [b \in Batteries |-> Grown(lastSeen[b], InactiveTimeout)]
    /\ dedup' = [k \in Keys |-> Grown(dedup[k], Horizon + 1)]
    /\ UNCHANGED <<meterVars, inactive, inflight, announced, news>>

Init ==
    /\ MeterInit
    /\ lastSeen = [b \in Batteries |-> Never]
    /\ inactive = {} /\ inflight = {} /\ handlers = {} /\ announced = {}
    /\ dedup = [k \in Keys |-> NoEntry]
    /\ news = {}

Next ==
    \/ \E k \in Keys, decodes \in BOOLEAN : Poll(k, decodes)
    \/ \E h \in handlers : Answer(h)
    \/ InactiveCheck
    \/ Tick
    \/ Pushes

Spec == Init /\ [][Next]_vars

-----------------------------------------------------------------------------
\* A battery's zero-export loop integrates what it is told, so one reading is
\* answered once: between two replies to a battery on one port the meter pushed
\* something, or the handler waited for it in vain the whole time.  A slow meter
\* never releases a burst of replies (_inflight_batteries).
EachReplyIsNews ==
    [][\A h \in handlers :
         handlers' = handlers \ {h} /\ h.age < FreshTimeout /\ Usable(value)
             => h.key \in news]_vars

\* Whoever the event listener counts as present is watched for silence: it was
\* seen, and the inactivity check has not already done with it, so its going
\* will still be announced.
PresentIsWatched ==
    \A b \in announced : lastSeen[b] # Never /\ b \notin inactive
=============================================================================
