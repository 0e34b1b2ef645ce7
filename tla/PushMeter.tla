----------------------------- MODULE PushMeter -----------------------------
(***************************************************************************)
(* A meter that pushes its readings over a WebSocket: the connect, read    *)
(* and reconnect loop of ws_client.py with Home Assistant's protocol on    *)
(* top of it (homeassistant.py).  After authentication the client          *)
(* subscribes to its entities and, for those that send no first event,     *)
(* fetches each state once over REST, beside the socket.  A dropped        *)
(* connection takes every value with it.                                   *)
(*                                                                         *)
(* Data.  A state is one of Readings, Unusable (the integration reports    *)
(* "unavailable") or Gone (the entity is not loaded).  Units, tokens and   *)
(* the sums over entities are left out.                                    *)
(***************************************************************************)
EXTENDS Naturals, SequencesExt

CONSTANTS
    Entities,       \* the entity ids, in the order the fetch sorts them
    Readings,       \* numeric states
    NoValue, Unusable, Gone, NoAnswer,
    MaxFrames       \* bound: events under way at once

ASSUME PushMeterAssumption ==
    /\ Entities \in Seq(ToSet(Entities)) /\ Entities # <<>>
    /\ MaxFrames \in Nat \ {0}

VARIABLES
    link,           \* the socket: "down", "open" (not authenticated), "live"
    subscribed,     \* the server pushes this connection the entities' events
    broken,         \* nothing gets through any more, not noticed yet
    frames,         \* events under way, oldest first
    state,          \* the entities' states, at Home Assistant
    connected,      \* _connected
    value,          \* _entity_values
    ready,          \* _entities_ready
    fetch,          \* _fetch_states_task: the entity it is at, what it was told
    arrived,        \* _message_event
    since           \* history: the readings each entity had since the link opened

server == <<link, subscribed, broken, frames, state>>
client == <<connected, value, ready, fetch, arrived>>
meterVars == <<server, client, since>>

Tracked == ToSet(Entities)
States == Readings \cup {Unusable, Gone}
NoFetch == [at |-> 0, told |-> NoAnswer]
Fetching == fetch.at > 0

\* What one event says of the entities: new states, and those whose state was
\* reported without a change.
Event(states, again) == [states |-> states, again |-> again]

Usable(f) == \A e \in Tracked : f[e] # NoValue

\* _update_entity_value: anything that is not a number leaves no value.
ValueOf(s) == IF s \in Readings THEN s ELSE NoValue

\* A state that was removed wakes nobody.
Wakes(s) == s # Gone

-----------------------------------------------------------------------------
(* Home Assistant and the network                                            *)

Loaded == {e \in Tracked : state[e] # Gone}

Sent(event) == IF subscribed THEN Append(frames, event) ELSE frames

SensorChanges ==
    /\ Len(frames) < MaxFrames
    /\ \E e \in Tracked, s \in States :
         /\ s # state[e]
         /\ state' = [state EXCEPT ![e] = s]
         /\ since' = [since EXCEPT ![e] = @ \cup ({s} \cap Readings)]
         /\ frames' = Sent(Event([x \in {e} |-> s], {}))
    /\ UNCHANGED <<link, subscribed, broken, client>>

SensorReports ==
    /\ subscribed /\ Len(frames) < MaxFrames
    /\ \E e \in Loaded : frames' = Append(frames, Event(<<>>, {e}))
    /\ UNCHANGED <<link, subscribed, broken, state, client, since>>

\* The server answers subscribe_entities with the entities it has loaded, or
\* refuses, and the client then knows that it has no live stream.
Subscribes ==
    /\ link = "live" /\ connected /\ ~subscribed /\ ~broken /\ Len(frames) < MaxFrames
    /\ subscribed' = TRUE
    /\ frames' = Append(frames, Event([e \in Loaded |-> state[e]], {}))
    /\ UNCHANGED <<link, broken, state, client, since>>

SubscriptionFails ==
    /\ link = "live" /\ connected /\ ~subscribed /\ ~broken
    /\ connected' = FALSE
    /\ UNCHANGED <<server, value, ready, fetch, arrived, since>>

\* The connection dies under what is on its way; the client finds out later.
Breaks ==
    /\ link # "down" /\ ~broken
    /\ broken' = TRUE /\ subscribed' = FALSE /\ frames' = <<>>
    /\ UNCHANGED <<link, state, client, since>>

-----------------------------------------------------------------------------
(* The client                                                                *)

Dials ==
    /\ link = "down"
    /\ link' = "open" /\ broken' = FALSE
    /\ since' = [e \in Tracked |-> {state[e]} \cap Readings]
    /\ UNCHANGED <<subscribed, frames, state, client>>

\* auth_ok: the subscription goes out and a fetch of the states begins.
Authenticates ==
    /\ link = "open" /\ ~broken
    /\ link' = "live" /\ connected' = TRUE
    /\ fetch' = [at |-> 1, told |-> NoAnswer]
    /\ UNCHANGED <<subscribed, broken, frames, state, value, ready, arrived, since>>

\* _update_entity_value for every entity of f.
Learn(f) ==
    /\ value' = [e \in Tracked |-> IF e \in DOMAIN f THEN ValueOf(f[e]) ELSE value[e]]
    /\ ready' = Usable(value')

\* What sets _message_event: a state, or the report of one that is usable.
Heard(event) ==
    \/ \E e \in DOMAIN event.states : Wakes(event.states[e])
    \/ \E e \in event.again : value[e] # NoValue

Delivers(event) ==
    /\ Learn(event.states)
    /\ arrived' = (arrived \/ Heard(event))

EventArrives ==
    /\ frames # <<>>
    /\ frames' = Tail(frames)
    /\ Delivers(Head(frames))
    /\ UNCHANGED <<link, subscribed, broken, state, connected, fetch, since>>

\* The task walks the entities, asking for those without a value.
FetchMoves(f, first) ==
    LET rest == {i \in first .. Len(Entities) : f[Entities[i]] = NoValue}
    IN  \/ rest = {} /\ fetch' = NoFetch
        \/ \E i \in rest : /\ \A j \in rest : i <= j
                           /\ fetch' = [at |-> i, told |-> NoAnswer]

\* Home Assistant answers with the state of that moment, which reaches the
\* task some time later.
FetchAnswered ==
    /\ Fetching /\ fetch.told = NoAnswer
    /\ fetch' = [fetch EXCEPT !.told = state[Entities[fetch.at]]]
    /\ UNCHANGED <<server, connected, value, ready, arrived, since>>

Told == Event([e \in {Entities[fetch.at]} |-> fetch.told], {})

FetchLands ==
    /\ Fetching /\ fetch.told \notin {NoAnswer, Gone}
    /\ Delivers(Told)
    /\ FetchMoves(value', fetch.at + 1)
    /\ UNCHANGED <<server, connected, since>>

\* The entity is not known, or the request fails.
FetchFails ==
    /\ Fetching
    /\ FetchMoves(value, fetch.at + 1)
    /\ UNCHANGED <<server, connected, value, ready, arrived, since>>

\* (mutant) a drop leaves the fetch of the old connection running
DropsKeepingFetch ==
    /\ link # "down"
    /\ link' = "down" /\ subscribed' = FALSE /\ broken' = FALSE /\ frames' = <<>>
    /\ connected' = FALSE /\ ready' = FALSE
    /\ value' = [e \in Tracked |-> NoValue]
    /\ UNCHANGED <<state, fetch, arrived, since>>

\* The loop sees the connection end: the peer closed it, the heartbeat missed
\* its answer or a handler raised.  The cancelled fetch learns nothing more.
Drops ==
    /\ link # "down"
    /\ link' = "down" /\ subscribed' = FALSE /\ broken' = FALSE /\ frames' = <<>>
    /\ connected' = FALSE /\ ready' = FALSE
    /\ value' = [e \in Tracked |-> NoValue]
    /\ fetch' = NoFetch
    /\ UNCHANGED <<state, arrived, since>>

MeterInit ==
    /\ link = "down" /\ subscribed = FALSE /\ broken = FALSE /\ frames = <<>>
    /\ state \in [Tracked -> States]
    /\ connected = FALSE /\ ready = FALSE /\ arrived = FALSE
    /\ value = [e \in Tracked |-> NoValue]
    /\ fetch = NoFetch
    /\ since = [e \in Tracked |-> {}]

\* What happens without a word from the meter.
MeterQuietly ==
    \/ SensorChanges \/ SensorReports
    \/ Subscribes \/ SubscriptionFails \/ Breaks
    \/ Dials \/ Authenticates \/ Drops
    \/ FetchAnswered \/ FetchFails

-----------------------------------------------------------------------------
\* No value outlives its connection: whatever the meter serves was a state the
\* entity had since the present link was opened, through every order of events,
\* fetches, breaks and reconnects (_on_disconnect: a bootstrap from the previous
\* connection must not "resurrect a stale value").
NothingResurrected == \A e \in Tracked : value[e] # NoValue => value[e] \in since[e]
=============================================================================
