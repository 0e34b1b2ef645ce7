------------------------------ MODULE Settings ------------------------------
(***************************************************************************)
(* Device settings over MQTT (mqtt_insights/service.py, the command side,  *)
(* and the dashboard's mirror in web_server.py).  All settings of a device *)
(* share one retained command topic.  Home Assistant writes one of them at *)
(* a time, which drops the others from the broker's copy, so the service   *)
(* publishes every persisted setting back; its own message returns to it,  *)
(* and a message that holds everything is what ends the exchange.  The     *)
(* broker hands the retained message out on every connect, often before    *)
(* the device has registered.                                              *)
(*                                                                         *)
(* The service waits for the acknowledgement of a publish, or a timeout,   *)
(* before it reads the next command; nothing here depends on the wait, so  *)
(* the broker may receive a publish at any later time.                     *)
(***************************************************************************)
EXTENDS Naturals, SequencesExt

CONSTANTS
    Names,       \* DEVICE_SETTINGS
    Values,      \* the values a setting takes
    Bad,         \* a value apply_device_control rejects
    Config,      \* the values the device starts with
    MaxWrites,   \* bound: commands written by anyone
    MaxFaults    \* bound: broken links and restarts

ASSUME SettingsAssumption ==
    /\ Bad \notin Values
    /\ Config \in [Names -> Values]
    /\ MaxWrites \in Nat
    /\ MaxFaults \in Nat

VARIABLES
    device,      \* the settings as the device runs with them
    registered,  \* register_device has been called
    pending,     \* _pending_device_commands
    partial,     \* _pending_device_partial
    persisted,   \* _persisted_settings
    replayDue,   \* a publish spawned by the replay has not run yet
    rotations,   \* forced rotations
    up,          \* connected and subscribed
    retained,    \* the broker's copy of the topic
    toUs,        \* messages delivered and not yet read
    toBroker,    \* our publishes the broker does not have yet
    presses,     \* buttons pressed by someone (history)
    due,         \* what the last undisturbed write leaves set (history)
    known,       \* due says something (history)
    writes,      \* commands so far (bound)
    faults       \* faults so far (bound)

service == <<device, registered, pending, partial, persisted, replayDue, rotations>>
link == <<up, retained, toUs, toBroker>>
history == <<presses, due, known>>
vars == <<service, link, history, writes, faults>>

\* A message: the settings it carries and whether it presses the button.  One
\* that carries nothing is the empty payload that clears the topic.
Carried == UNION {[D -> Values \cup {Bad}]: D \in SUBSET Names}
Command == [set: Carried, press: BOOLEAN]
Message(set, press) == [set |-> set, press |-> press]
None == Message(<<>>, FALSE)

\* A message that carries one setting.
Only(s, v) == [t \in {s} |-> v]

\* Settings with those of a later message over them.
Over(earlier, later) ==
    [s \in DOMAIN earlier \cup DOMAIN later |->
        IF s \in DOMAIN later THEN later[s] ELSE earlier[s]]

\* What apply_device_control accepts of what a message carries.
Valid(set) == Restrict(set, {s \in DOMAIN set: set[s] # Bad})

\* Every persisted setting at its current value.
Current(dev, names) == [s \in names |-> dev[s]]

Init ==
    /\ device = Config
    /\ registered = FALSE
    /\ pending = <<>>
    /\ partial = FALSE
    /\ persisted = {}
    /\ replayDue = FALSE
    /\ rotations = 0
    /\ up = FALSE
    \* an earlier release, or an earlier run, has left something behind
    /\ \E s \in Names, v \in Values, press \in BOOLEAN:
        retained \in {None, Message(<<>>, TRUE), Message(Only(s, v), press)}
    /\ toUs = <<>>
    /\ toBroker = <<>>
    /\ presses = 0
    /\ due = <<>>
    /\ known = FALSE
    /\ writes = 0
    /\ faults = 0

-----------------------------------------------------------------------------
(* The service.                                                             *)

\* (mutant) what the configuration says is published, not what is set
PublishConfigured(dev, names) ==
    IF names = {} THEN <<>> ELSE <<Message(Current(Config, names), FALSE)>>

\* _publish_device_settings
PublishSettings(dev, names) ==
    IF names = {} THEN <<>> ELSE <<Message(Current(dev, names), FALSE)>>

\* (mutant) a command that carries everything is answered like any other
HoldsNothing(dev, names, set) == names = {}

\* _holds_device_settings
Holds(dev, names, set) ==
    \A s \in names: s \in DOMAIN set /\ set[s] = dev[s]

\* _drop_retained_button_press: the topic is rewritten without the press.
Unpressed(msg) ==
    IF msg.retained /\ msg.cmd.press THEN <<Message(msg.cmd.set, FALSE)>> ELSE <<>>

\* (mutant) a setting that came before the device is not missed on the broker
KeepWhole(cmd) ==
    /\ pending' = Over(pending, cmd.set)
    /\ partial' = FALSE
    /\ UNCHANGED <<device, persisted, rotations>>

\* _handle_device_command, no such device yet: keep the settings for it.
Keep(cmd) ==
    /\ pending' = Over(pending, cmd.set)
    /\ partial' = ~(DOMAIN pending' \subseteq DOMAIN cmd.set)
    /\ UNCHANGED <<device, persisted, rotations>>

\* (mutant) a press the broker replays is a press
ApplyAnyPress(cmd, replayed) ==
    /\ rotations' = rotations + IF cmd.press THEN 1 ELSE 0
    /\ device' = Over(device, Valid(cmd.set))
    /\ persisted' = persisted \cup DOMAIN Valid(cmd.set)
    /\ UNCHANGED <<pending, partial>>

\* _handle_device_command: only a live press is honoured.
Apply(cmd, replayed) ==
    /\ rotations' = rotations + IF cmd.press /\ ~replayed THEN 1 ELSE 0
    /\ device' = Over(device, Valid(cmd.set))
    /\ persisted' = persisted \cup DOMAIN Valid(cmd.set)
    /\ UNCHANGED <<pending, partial>>

\* _listen_commands; the empty payload is ignored.
Listen ==
    /\ up
    /\ toUs # <<>>
    /\ LET msg == Head(toUs) IN
        \/ /\ msg.cmd = None
           /\ UNCHANGED <<device, pending, partial, persisted, rotations, toBroker>>
        \/ /\ msg.cmd # None
           /\ ~registered
           /\ Keep(msg.cmd)
           /\ toBroker' = toBroker \o Unpressed(msg)
        \/ /\ msg.cmd # None
           /\ registered
           /\ Apply(msg.cmd, msg.retained)
           /\ toBroker' = toBroker \o Unpressed(msg)
                \o IF Holds(device', persisted', msg.cmd.set) THEN <<>>
                   ELSE PublishSettings(device', persisted')
    /\ toUs' = Tail(toUs)
    /\ UNCHANGED <<registered, replayDue, up, retained, history, writes, faults>>

\* register_device: what arrived before is applied, and published back when
\* the broker no longer holds all of it, over a write not yet read.
Register ==
    /\ ~registered
    /\ registered' = TRUE
    /\ pending' = <<>>
    /\ partial' = FALSE
    /\ device' = Over(device, Valid(pending))
    /\ persisted' = persisted \cup DOMAIN Valid(pending)
    /\ replayDue' = (DOMAIN pending # {} /\ partial /\ up)
    /\ known' = (known /\ (replayDue' => toUs = <<>>))
    /\ UNCHANGED <<rotations, link, presses, due, writes, faults>>

\* The publish the replay spawned runs.
ReplayPublish ==
    /\ replayDue
    /\ replayDue' = FALSE
    /\ toBroker' = toBroker \o PublishSettings(device, persisted)
    /\ UNCHANGED <<device, registered, pending, partial, persisted, rotations, up,
                   retained, toUs, history, writes, faults>>

-----------------------------------------------------------------------------
(* The broker and the link.                                                 *)

\* A message replaces the retained one and goes out to a subscribed service.
Receive(cmd) ==
    /\ retained' = cmd
    /\ toUs' = IF up THEN Append(toUs, [cmd |-> cmd, retained |-> FALSE]) ELSE toUs

BrokerReceives ==
    /\ toBroker # <<>>
    /\ Receive(Head(toBroker))
    /\ toBroker' = Tail(toBroker)
    /\ UNCHANGED <<service, up, history, writes, faults>>

\* Subscribing has the broker deliver what it retains; what the connection
\* before had sent and the broker does not have by then is gone.
Connect ==
    /\ ~up
    /\ up' = TRUE
    /\ toUs' = IF retained = None THEN <<>>
               ELSE <<[cmd |-> retained, retained |-> TRUE]>>
    /\ toBroker' = <<>>
    /\ UNCHANGED <<service, retained, history, writes, faults>>

Fault ==
    /\ faults < MaxFaults
    /\ faults' = faults + 1

\* A publish of ours that is under way may be the dashboard's only copy.
Drop ==
    /\ up
    /\ Fault
    /\ up' = FALSE
    /\ toUs' = <<>>
    /\ replayDue' = FALSE
    /\ known' = (known /\ toBroker = <<>>)
    /\ UNCHANGED <<device, registered, pending, partial, persisted, rotations, retained,
                   toBroker, presses, due, writes>>

Idle == up /\ toUs = <<>> /\ toBroker = <<>> /\ ~replayDue
Settled == Idle /\ registered

\* The process starts again: the configuration and the broker's copy are all
\* that is left.
Restart ==
    /\ Fault
    /\ device' = Config
    /\ registered' = FALSE
    /\ pending' = <<>>
    /\ partial' = FALSE
    /\ persisted' = {}
    /\ replayDue' = FALSE
    /\ up' = FALSE
    /\ toUs' = <<>>
    /\ toBroker' = <<>>
    /\ known' = (known /\ Settled)
    /\ UNCHANGED <<rotations, retained, presses, due, writes>>

-----------------------------------------------------------------------------
(* Home Assistant and the dashboard.                                        *)

Write ==
    /\ writes < MaxWrites
    /\ writes' = writes + 1

\* The settings someone has written and nobody has replaced.
Held == IF registered THEN Valid(retained.set) ELSE Valid(pending)

\* A write that follows another before it has settled says nothing.
Expect(s, v) ==
    /\ known' = (Idle /\ (registered \/ v # Bad))
    /\ due' = IF known' THEN Over(Held, Valid(Only(s, v))) ELSE <<>>

\* Home Assistant writes one setting, retained.
HomeAssistantWrites(s, v) ==
    /\ Write
    /\ Receive(Message(Only(s, v), FALSE))
    /\ Expect(s, v)
    /\ UNCHANGED <<service, up, toBroker, presses, faults>>

\* A press of the button is not retained.
ButtonPressed ==
    /\ Write
    /\ presses' = presses + 1
    /\ toUs' = IF up THEN Append(toUs, [cmd |-> Message(<<>>, TRUE), retained |-> FALSE])
               ELSE toUs
    /\ UNCHANGED <<service, up, retained, toBroker, due, known, faults>>

\* Someone clears the topic with an empty payload.
Cleared ==
    /\ Write
    /\ Receive(None)
    /\ known' = FALSE
    /\ due' = <<>>
    /\ UNCHANGED <<service, up, toBroker, presses, faults>>

\* _handle_control_device: the device has the value, and every persisted
\* setting is published when there is a connection.
DashboardWrites(s, v) ==
    /\ Write
    /\ registered
    /\ device' = [device EXCEPT ![s] = v]
    /\ IF up
       THEN /\ persisted' = persisted \cup {s}
            /\ toBroker' = toBroker \o PublishSettings(device', persisted')
       ELSE UNCHANGED <<persisted, toBroker>>
    /\ Expect(s, v)
    /\ UNCHANGED <<registered, pending, partial, replayDue, rotations, up, retained,
                   toUs, presses, faults>>

Next ==
    \/ Listen \/ Register \/ ReplayPublish
    \/ BrokerReceives \/ Connect \/ Drop \/ Restart
    \/ \E s \in Names: \E v \in Values \cup {Bad}: HomeAssistantWrites(s, v)
    \/ \E s \in Names: \E v \in Values: DashboardWrites(s, v)
    \/ ButtonPressed \/ Cleared

Spec == Init /\ [][Next]_vars

\* The listener and spawned publishes run, and the network delivers.
FairSpec ==
    /\ Spec
    /\ WF_vars(Listen)
    /\ WF_vars(ReplayPublish)
    /\ WF_vars(BrokerReceives)

-----------------------------------------------------------------------------
(* Properties.                                                              *)

Delivery == [cmd: Command, retained: BOOLEAN]

TypeOK ==
    /\ device \in [Names -> Values]
    /\ registered \in BOOLEAN
    /\ pending \in Carried
    /\ partial \in BOOLEAN
    /\ persisted \subseteq Names
    /\ replayDue \in BOOLEAN
    /\ rotations \in Nat
    /\ up \in BOOLEAN
    /\ retained \in Command
    /\ toUs \in Seq(Delivery)
    /\ toBroker \in Seq(Command)
    /\ presses \in Nat
    /\ due \in UNION {[D -> Values]: D \in SUBSET Names}
    /\ known \in BOOLEAN
    /\ writes \in 0..MaxWrites
    /\ faults \in 0..MaxFaults

\* Once nothing is under way, a topic that is not cleared carries every
\* persisted setting at the value the device runs with, nothing else that is
\* valid, and no button press (_handle_device_command, the replay and
\* _drop_retained_button_press): what the next connect replays changes nothing.
SettledAgrees ==
    Settled /\ retained # None =>
        /\ ~retained.press
        /\ Valid(retained.set) = Current(device, persisted)

\* A setting written while nothing else was under way is what the device runs
\* with once the write has settled, and every setting that stood before it
\* still stands, across reconnects, late registration and restarts of a
\* settled service (the topic is shared: docs/mqtt-insights.md).
WriteStands ==
    Settled /\ known => \A s \in DOMAIN due: device[s] = due[s]

\* The battery rotation is never forced more often than someone pressed the
\* button: no press is replayed by the broker, a reconnect or a restart.
PressedOnce == rotations <= presses

\* When nobody writes any more the service stops answering its own messages.
QuietsDown == <>[](toUs = <<>> /\ toBroker = <<>>)
=============================================================================
