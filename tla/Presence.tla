------------------------------ MODULE Presence ------------------------------
(***************************************************************************)
(* How MQTT Insights tells Home Assistant which batteries are there        *)
(* (mqtt_insights/service.py).  The emulator queues one event per answered *)
(* poll and one per eviction; the publish loop turns them into retained    *)
(* messages, sending an availability only when it moves and a discovery    *)
(* only once per connection; every connection starts by forgetting what    *)
(* the last one sent.  Availability, count and discovery go out at QoS 0:  *)
(* what is on the wire when the link breaks may or may not arrive.         *)
(*                                                                         *)
(* The topics that carry readings are left out, and with them the gate     *)
(* that sends the meter's own reading once per interval.                   *)
(***************************************************************************)
EXTENDS Naturals, FiniteSets, SequencesExt

CONSTANTS
    Batteries,   \* the batteries of one meter
    QueueMax,    \* QUEUE_MAX_SIZE
    MaxWire,     \* bound: messages under way at once
    Faults,      \* the faults that happen: "link", "broker" and "process"
    MaxFaults    \* bound: how many of them

ASSUME PresenceAssumption ==
    /\ IsFiniteSet(Batteries)
    /\ QueueMax \in Nat \ {0}
    /\ MaxWire \in Nat
    /\ Faults \subseteq {"link", "broker", "process"}
    /\ MaxFaults \in Nat

VARIABLES
    present,        \* the batteries the emulator knows
    queue,          \* events waiting for the publish loop, oldest first
    availability,   \* _availability: what this connection has published
    discovered,     \* _discovered, of the batteries
    recent,         \* _last_state_publish: published within the interval
    phase,          \* the connection: "down", "announcing", "serving", and of a
                    \* stopping process "parting" and "stopped"
    wire,           \* messages sent and not yet at the broker
    stale,          \* those of the connection before, not yet at the broker
    willDue,        \* the broker holds a will for a connection that is gone
    unheard,        \* the parting "offline" of a stop found no broker (history)
    broker,         \* the retained values
    lost,           \* batteries whose last event never got through (history)
    faults          \* faults so far (bound)

memory == <<availability, discovered, recent>>
link == <<phase, wire, stale, willDue, unheard>>
vars == <<present, queue, memory, link, broker, lost, faults>>

Event == [kind: {"poll", "remove"}, b: Batteries]

Status(value) == [topic |-> "status", value |-> value]
Avail(b, value) == [topic |-> "avail", b |-> b, value |-> value]
Bridge(n) == [topic |-> "bridge", count |-> n]
Discovery(b, value) == [topic |-> "discovery", b |-> b, value |-> value]

Message ==
    {Status(v): v \in {"online", "offline"}}
        \cup {Avail(b, v): b \in Batteries, v \in {"online", "offline"}}
        \cup {Bridge(n): n \in 0..Cardinality(Batteries)}
        \cup {Discovery(b, v): b \in Batteries, v \in {"retiring", "current"}}

\* What the broker holds when it has never been told anything.
Blank ==
    [status |-> "none",
     avail |-> [b \in Batteries |-> "none"],
     count |-> 0,
     discovery |-> [b \in Batteries |-> "none"]]

\* A retained message replaces the value of its topic.
Retain(held, msg) ==
    CASE msg.topic = "status" -> [held EXCEPT !.status = msg.value]
      [] msg.topic = "avail" -> [held EXCEPT !.avail[msg.b] = msg.value]
      [] msg.topic = "bridge" -> [held EXCEPT !.count = msg.count]
      [] msg.topic = "discovery" -> [held EXCEPT !.discovery[msg.b] = msg.value]

Init ==
    /\ present = {}
    /\ queue = <<>>
    /\ availability = [b \in Batteries |-> "none"]
    /\ discovered = {}
    /\ recent = {}
    /\ phase = "down"
    /\ wire = <<>>
    /\ stale = <<>>
    /\ willDue = FALSE
    /\ unheard = FALSE
    /\ broker = Blank
    /\ lost = {}
    /\ faults = 0

-----------------------------------------------------------------------------
(* The emulator's side: events are queued, and a full queue loses its       *)
(* oldest one.                                                              *)

PutNowait(ev) ==
    IF Len(queue) < QueueMax
    THEN /\ queue' = Append(queue, ev)
         /\ lost' = lost
    ELSE /\ queue' = Append(Tail(queue), ev)
         /\ lost' = lost \cup {Head(queue).b}

Running == phase \notin {"parting", "stopped"}

Poll(b) ==
    /\ Running
    /\ present' = present \cup {b}
    /\ PutNowait([kind |-> "poll", b |-> b])
    /\ UNCHANGED <<memory, link, broker, faults>>

Evict(b) ==
    /\ Running
    /\ b \in present
    /\ present' = present \ {b}
    /\ PutNowait([kind |-> "remove", b |-> b])
    /\ UNCHANGED <<memory, link, broker, faults>>

\* The throttle interval since b's last publish has passed.
IntervalPasses(b) ==
    /\ b \in recent
    /\ recent' = recent \ {b}
    /\ UNCHANGED <<present, queue, availability, discovered, link, broker, lost,
                   faults>>

-----------------------------------------------------------------------------
(* The publish loop.  A handler's messages are put on the wire together: a  *)
(* link that breaks half way through loses what is left of them.            *)

\* _publish_availability: nothing when the value is already out.
AvailabilityMoves(b, value) ==
    IF availability[b] = value THEN <<>> ELSE <<Avail(b, value)>>

Send(batch) ==
    /\ Len(wire) + Len(batch) <= MaxWire
    /\ wire' = wire \o batch

\* An event of a battery published within the interval is dropped whole.
Throttled(ev) == ev.kind = "poll" /\ ev.b \in recent

HandlePoll(b) ==
    /\ Send(AvailabilityMoves(b, "online")
            \o IF b \in discovered THEN <<>>
               ELSE <<Bridge(Cardinality(discovered \cup {b})),
                      Discovery(b, "retiring"), Discovery(b, "current")>>)
    /\ availability' = [availability EXCEPT ![b] = "online"]
    /\ discovered' = discovered \cup {b}
    /\ recent' = recent \cup {b}

\* (mutant) the eviction does not forget when the battery was last published
HandleRemoveKeepsThrottle(b) ==
    /\ Send(AvailabilityMoves(b, "offline")
            \o <<Bridge(Cardinality(discovered \ {b}))>>)
    /\ availability' = [availability EXCEPT ![b] = "offline"]
    /\ discovered' = discovered \ {b}
    /\ recent' = recent

HandleRemove(b) ==
    /\ Send(AvailabilityMoves(b, "offline")
            \o <<Bridge(Cardinality(discovered \ {b}))>>)
    /\ availability' = [availability EXCEPT ![b] = "offline"]
    /\ discovered' = discovered \ {b}
    /\ recent' = recent \ {b}

HandleEvent ==
    /\ phase = "serving"
    /\ queue # <<>>
    /\ LET ev == Head(queue) IN
        /\ \/ Throttled(ev) /\ UNCHANGED <<memory, wire>>
           \/ ev.kind = "poll" /\ ~Throttled(ev) /\ HandlePoll(ev.b)
           \/ ev.kind = "remove" /\ HandleRemove(ev.b)
        /\ lost' = lost \ {ev.b}
    /\ queue' = Tail(queue)
    /\ UNCHANGED <<present, phase, stale, willDue, unheard, broker, faults>>

-----------------------------------------------------------------------------
(* The link and the broker.                                                 *)

\* The broker ends a connection that is gone and publishes its will.
WillPublished(held) == IF willDue THEN [held EXCEPT !.status = "offline"] ELSE held

\* (mutant) a fresh identifier for every connection: the old one stays open
ConnectAsStranger ==
    /\ phase = "down"
    /\ phase' = "announcing"
    /\ wire' = <<Status("online")>>
    /\ availability' = [b \in Batteries |-> "none"]
    /\ discovered' = {}
    /\ recent' = {}
    /\ UNCHANGED <<present, queue, stale, willDue, unheard, broker, lost, faults>>

\* A connection under the service's one identifier takes the old session over:
\* the broker publishes the old will and applies nothing more of the old bytes.
\* The service forgets what it published and says it is online.
Connect ==
    /\ phase = "down"
    /\ broker' = WillPublished(broker)
    /\ willDue' = FALSE
    /\ unheard' = FALSE
    /\ stale' = <<>>
    /\ phase' = "announcing"
    /\ wire' = <<Status("online")>>
    /\ availability' = [b \in Batteries |-> "none"]
    /\ discovered' = {}
    /\ recent' = {}
    /\ UNCHANGED <<present, queue, lost, faults>>

\* The status is at QoS 1: the broker has it before the rest is announced.
Announced ==
    /\ phase = "announcing"
    /\ wire = <<>>
    /\ phase' = "serving"
    /\ wire' = <<Bridge(Cardinality(discovered))>>
    /\ UNCHANGED <<present, queue, memory, stale, willDue, unheard, broker, lost, faults>>

Deliver ==
    /\ wire # <<>>
    /\ broker' = Retain(broker, Head(wire))
    /\ wire' = Tail(wire)
    /\ UNCHANGED <<present, queue, memory, phase, stale, willDue, unheard, lost, faults>>

\* What an abandoned connection had sent still lands.
DeliverStale ==
    /\ stale # <<>>
    /\ broker' = Retain(broker, Head(stale))
    /\ stale' = Tail(stale)
    /\ UNCHANGED <<present, queue, memory, phase, wire, willDue, unheard, lost, faults>>

\* The broker gives up on a connection that is gone.
WillFires ==
    /\ willDue
    /\ broker' = WillPublished(broker)
    /\ willDue' = FALSE
    /\ stale' = <<>>
    /\ UNCHANGED <<present, queue, memory, phase, wire, unheard, lost, faults>>

Up == phase \in {"announcing", "serving"}

Fault(kind) ==
    /\ kind \in Faults
    /\ faults < MaxFaults
    /\ faults' = faults + 1

\* The batteries whose last availability is an "offline" still on the wire.
Leaving == {b \in Batteries: Avail(b, "offline") \in ToSet(wire)}

\* (mutant) the old connection's publish loop is left running and takes the
\* next event off the queue for a dead client
DropLeavesLoop ==
    /\ Up
    /\ Fault("link")
    /\ stale' = stale \o wire
    /\ phase' = "down"
    /\ wire' = <<>>
    /\ willDue' = TRUE
    /\ queue' = IF queue = <<>> THEN queue ELSE Tail(queue)
    /\ lost' = lost \cup Leaving
    /\ UNCHANGED <<present, memory, unheard, broker>>

\* The link breaks: what was sent may still arrive, until the broker ends the
\* connection.
Drop ==
    /\ Up
    /\ Fault("link")
    /\ stale' = stale \o wire
    /\ phase' = "down"
    /\ wire' = <<>>
    /\ willDue' = TRUE
    /\ lost' = lost \cup Leaving
    /\ UNCHANGED <<present, queue, memory, unheard, broker>>

\* The broker restarts without its retained values.
BrokerRestart ==
    /\ Up
    /\ Fault("broker")
    /\ broker' = Blank
    /\ phase' = "down"
    /\ wire' = <<>>
    /\ stale' = <<>>
    /\ willDue' = FALSE
    /\ lost' = lost \cup Leaving
    /\ UNCHANGED <<present, queue, memory, unheard>>

\* Everything the process knew is gone, and with it the word that a battery
\* has left.
Forget ==
    /\ present' = {}
    /\ queue' = <<>>
    /\ wire' = <<>>
    /\ lost' = Batteries

\* A stop while connected: the loops are cancelled and the client disconnects
\* behind what it had sent.
Stop ==
    /\ Up
    /\ Fault("process")
    /\ phase' = "parting"
    /\ Forget
    /\ stale' = wire
    /\ UNCHANGED <<memory, willDue, unheard, broker>>

\* _publish_offline: a connection under the same identifier, which ends the
\* former one, says that the service is offline.
Part ==
    /\ phase = "parting"
    /\ phase' = "stopped"
    /\ broker' = Retain(broker, Status("offline"))
    /\ stale' = <<>>
    /\ UNCHANGED <<present, queue, memory, wire, willDue, unheard, lost, faults>>

\* The parting connection fails, which is suppressed.  The will of the former
\* one is due only when it broke before its farewell.
PartUnheard ==
    /\ phase = "parting"
    /\ Fault("link")
    /\ phase' = "stopped"
    /\ willDue' \in BOOLEAN
    /\ unheard' = ~willDue'
    /\ UNCHANGED <<present, queue, memory, wire, stale, broker, lost>>

\* A stop while waiting to reconnect publishes nothing: the cancellation lands
\* in the handler that sleeps.
StopAsleep ==
    /\ phase = "down"
    /\ Fault("process")
    /\ phase' = "stopped"
    /\ Forget
    /\ UNCHANGED <<memory, stale, willDue, unheard, broker>>

\* The process dies: its bytes may land, and then its will.
Crash ==
    /\ Up
    /\ Fault("process")
    /\ phase' = "stopped"
    /\ Forget
    /\ stale' = wire
    /\ willDue' = TRUE
    /\ UNCHANGED <<memory, unheard, broker>>

\* A new process finds its former connection closed.  Bound of the model: it
\* starts when the will of the former one has been published; a will that falls
\* later than its successor's "online" is not in it.
Restart ==
    /\ phase = "stopped"
    /\ ~willDue
    /\ phase' = "down"
    /\ stale' = <<>>
    /\ UNCHANGED <<present, queue, memory, wire, willDue, unheard, broker, lost, faults>>

Next ==
    \/ \E b \in Batteries: Poll(b) \/ Evict(b) \/ IntervalPasses(b)
    \/ HandleEvent
    \/ Connect \/ Announced \/ Deliver \/ DeliverStale \/ WillFires
    \/ Drop \/ BrokerRestart
    \/ Stop \/ Part \/ PartUnheard \/ StopAsleep \/ Crash \/ Restart

Spec == Init /\ [][Next]_vars

-----------------------------------------------------------------------------
(* Properties.                                                              *)

TypeOK ==
    /\ present \subseteq Batteries
    /\ queue \in Seq(Event)
    /\ Len(queue) <= QueueMax
    /\ availability \in [Batteries -> {"none", "online", "offline"}]
    /\ discovered \subseteq Batteries
    /\ recent \subseteq Batteries
    /\ phase \in {"down", "announcing", "serving", "parting", "stopped"}
    /\ wire \in Seq(Message)
    /\ stale \in Seq(Message)
    /\ willDue \in BOOLEAN
    /\ unheard \in BOOLEAN
    /\ broker \in [status: {"none", "online", "offline"},
                   avail: [Batteries -> {"none", "online", "offline"}],
                   count: 0..Cardinality(Batteries),
                   discovery: [Batteries -> {"none", "retiring", "current"}]]
    /\ lost \subseteq Batteries
    /\ faults \in 0..MaxFaults

\* Nothing is under way for a connected service.
Quiet == phase = "serving" /\ wire = <<>> /\ queue = <<>>

\* Once nothing is under way, the broker shows what the emulator knows: a
\* battery heard on this connection is retained as online while it is present
\* and as offline when it is not; and when every known battery has been heard,
\* the bridge counts them all and each one's discovery is the current payload,
\* not the retirement sent before it.  So it is through throttling, returns
\* within the throttle interval, reconnects and a broker that forgot
\* (_publish_availability, _publish_bridge, _publish_discovery).
RetainedIsTrue ==
    Quiet =>
        /\ \A b \in Batteries:
             availability[b] # "none" /\ b \notin lost =>
                 broker.avail[b] = IF b \in present THEN "online" ELSE "offline"
        /\ present \subseteq discovered /\ lost \cap discovered = {} =>
             /\ broker.count = Cardinality(present)
             /\ \A b \in present: broker.discovery[b] = "current"

\* A battery that is gone and still shown as online has its "offline" under
\* way, as a queued removal or on the wire, unless the event was lost with a
\* full queue, a broken link or the process ("Removals are never dropped").
OfflineIsComing ==
    \A b \in Batteries \ present:
        broker.avail[b] = "online" =>
            \/ b \in lost
            \/ [kind |-> "remove", b |-> b] \in ToSet(queue)
            \/ b \in Leaving

\* The retained status is online for as long as the service serves, and once
\* it has stopped and its will is spent, it is not, unless its parting publish
\* found no broker (the will and the parting publish of _run; one client
\* identifier, issue #718).
StatusIsTrue ==
    /\ phase = "serving" => broker.status = "online"
    /\ phase = "stopped" /\ ~willDue /\ ~unheard => broker.status # "online"

=============================================================================
