--------------------------- MODULE SettingsProofs ---------------------------
(***************************************************************************)
(* For any settings, values and bounds: no press is counted twice, what    *)
(* settles on the broker is what the device runs with, and a write that    *)
(* nothing disturbed stands.  The invariants are layered: each layer uses  *)
(* the ones before it.                                                     *)
(***************************************************************************)
EXTENDS Settings, SequenceTheorems, FiniteSetTheorems, TLAPS

-----------------------------------------------------------------------------
(* What the operators on settings return.                                   *)

\* Settings that were all accepted.
Chosen == UNION {[D -> Values] : D \in SUBSET Names}

\* apply_device_control takes the valid ones of what a message carries.
LEMMA ValidIs ==
    ASSUME NEW set \in Carried
    PROVE  /\ Valid(set) \in Chosen
           /\ DOMAIN Valid(set) = {s \in DOMAIN set : set[s] # Bad}
           /\ \A s \in DOMAIN Valid(set) : Valid(set)[s] = set[s]
<1>1. PICK D \in SUBSET Names : set \in [D -> Values \cup {Bad}]
  BY DEF Carried
<1>2. Valid(set) = [s \in {t \in DOMAIN set : set[t] # Bad} |-> set[s]]
  BY DEF Valid, Restrict
<1>3. Valid(set) \in [{s \in DOMAIN set : set[s] # Bad} -> Values]
  BY <1>1, <1>2
<1> QED BY <1>1, <1>2, <1>3 DEF Chosen

\* A later message wins where both say something.
LEMMA OverIs ==
    ASSUME NEW f \in Carried, NEW g \in Carried
    PROVE  /\ Over(f, g) \in Carried
           /\ DOMAIN Over(f, g) = DOMAIN f \cup DOMAIN g
           /\ \A s \in DOMAIN g : Over(f, g)[s] = g[s]
           /\ \A s \in DOMAIN f \ DOMAIN g : Over(f, g)[s] = f[s]
<1>1. PICK D \in SUBSET Names : f \in [D -> Values \cup {Bad}]
  BY DEF Carried
<1>2. PICK E \in SUBSET Names : g \in [E -> Values \cup {Bad}]
  BY DEF Carried
<1>3. Over(f, g) \in [D \cup E -> Values \cup {Bad}]
  BY <1>1, <1>2 DEF Over
<1> QED BY <1>3 DEF Carried, Over

\* Accepted settings over accepted settings are accepted settings.
LEMMA OverChosen ==
    ASSUME NEW f \in Chosen, NEW g \in Chosen
    PROVE  Over(f, g) \in Chosen
<1>1. PICK D \in SUBSET Names : f \in [D -> Values]
  BY DEF Chosen
<1>2. PICK E \in SUBSET Names : g \in [E -> Values]
  BY DEF Chosen
<1>3. Over(f, g) \in [D \cup E -> Values]
  BY <1>1, <1>2 DEF Over
<1> QED BY <1>3 DEF Chosen

\* A device that takes accepted settings still runs with a value for each.
LEMMA OverDevice ==
    ASSUME NEW dev \in [Names -> Values], NEW g \in Chosen
    PROVE  /\ Over(dev, g) \in [Names -> Values]
           /\ \A s \in DOMAIN g : Over(dev, g)[s] = g[s]
           /\ \A s \in Names \ DOMAIN g : Over(dev, g)[s] = dev[s]
<1>1. PICK E \in SUBSET Names : g \in [E -> Values]
  BY DEF Chosen
<1> QED BY <1>1 DEF Over

\* Only names of settings are carried.
LEMMA CarriesNames ==
    ASSUME NEW set \in Carried
    PROVE  /\ DOMAIN set \subseteq Names
           /\ \A s \in DOMAIN set : set[s] \in Values \cup {Bad}
BY DEF Carried

\* Accepted settings can be carried, and name only settings.
LEMMA ChosenIsCarried ==
    ASSUME NEW set \in Chosen
    PROVE  set \in Carried /\ DOMAIN set \subseteq Names /\ \A s \in DOMAIN set : set[s] \in Values
<1>1. PICK D \in SUBSET Names : set \in [D -> Values]
  BY DEF Chosen
<1>2. set \in [D -> Values \cup {Bad}]
  BY <1>1
<1> QED BY <1>1, <1>2 DEF Carried

\* One setting is carried.
LEMMA OnlyIs ==
    ASSUME NEW s \in Names, NEW v \in Values \cup {Bad}
    PROVE  /\ Only(s, v) \in Carried
           /\ DOMAIN Only(s, v) = {s}
           /\ Only(s, v)[s] = v
<1>1. Only(s, v) \in [{s} -> Values \cup {Bad}]
  BY DEF Only
<1> QED BY <1>1 DEF Carried, Only

\* The empty payload carries nothing.
LEMMA NothingIs == <<>> \in Carried /\ <<>> \in Chosen /\ DOMAIN <<>> = {}
<1>1. <<>> \in [{} -> Values]
  BY EmptySeq, SeqDef
<1>2. <<>> \in [{} -> Values \cup {Bad}]
  BY EmptySeq, SeqDef
<1> QED BY <1>1, <1>2 DEF Carried, Chosen

\* A message keeps what it is made of.
LEMMA MessageIs ==
    ASSUME NEW set \in Carried, NEW press \in BOOLEAN
    PROVE  /\ Message(set, press) \in Command
           /\ Message(set, press).set = set
           /\ Message(set, press).press = press
           /\ [cmd |-> Message(set, press), retained |-> FALSE] \in Delivery
           /\ DOMAIN set # {} => Message(set, press) # None
<1>1. Message(set, press) \in Command /\ Message(set, press).set = set
      /\ Message(set, press).press = press
  BY DEF Message, Command
<1>2. [cmd |-> Message(set, press), retained |-> FALSE] \in Delivery
  BY <1>1 DEF Delivery
<1>3. None.set = <<>>
  BY DEF None, Message
<1> QED BY <1>1, <1>2, <1>3, NothingIs

\* The empty payload presses nothing.
LEMMA NoneIs == None \in Command /\ ~None.press /\ DOMAIN None.set = {}
BY NothingIs DEF None, Message, Command

\* What is published: the persisted settings, whole, in one message.
LEMMA PublishIs ==
    ASSUME NEW dev \in [Names -> Values], NEW names \in SUBSET Names
    PROVE  /\ Current(dev, names) \in Carried
           /\ DOMAIN Current(dev, names) = names
           /\ \A s \in names : Current(dev, names)[s] = dev[s]
           /\ PublishSettings(dev, names) \in Seq({Message(Current(dev, names), FALSE)})
           /\ names = {} => PublishSettings(dev, names) = <<>>
           /\ names # {} => /\ PublishSettings(dev, names) # <<>>
                            /\ Message(Current(dev, names), FALSE) # None
<1>1. Current(dev, names) \in [names -> Values \cup {Bad}]
  BY DEF Current
<1>2. Current(dev, names) \in Carried
  BY <1>1 DEF Carried
<1>3. \A m : <<m>> \in Seq({m}) /\ <<m>> # <<>> /\ <<>> \in Seq({m})
  BY EmptySeq
<1>4. DOMAIN Current(dev, names) = names /\ \A s \in names : Current(dev, names)[s] = dev[s]
  BY DEF Current
<1>5. names # {} => Message(Current(dev, names), FALSE) # None
  BY <1>2, <1>4, MessageIs
<1> QED BY <1>2, <1>3, <1>4, <1>5 DEF PublishSettings

\* The topic is rewritten for a retained press only, and never with a press.
LEMMA UnpressedIs ==
    ASSUME NEW msg \in Delivery
    PROVE  /\ Unpressed(msg) \in Seq({Message(msg.cmd.set, FALSE)})
           /\ msg.retained /\ msg.cmd.press => Unpressed(msg) # <<>>
           /\ ~(msg.retained /\ msg.cmd.press) => Unpressed(msg) = <<>>
<1>1. \A m : <<m>> \in Seq({m}) /\ <<m>> # <<>> /\ <<>> \in Seq({m})
  BY EmptySeq
<1> QED BY <1>1 DEF Unpressed

\* A sequence of one allowed message is a sequence of allowed messages.
LEMMA OneOf ==
    ASSUME NEW S, NEW m \in S, NEW seq \in Seq({m})
    PROVE  seq \in Seq(S)
<1>1. {m} \subseteq S
  OBVIOUS
<1> QED BY <1>1, SeqMonotonic

\* What a delivery is made of.
LEMMA DeliveryIs ==
    ASSUME NEW msg \in Delivery
    PROVE  /\ msg.cmd \in Command /\ msg.retained \in BOOLEAN
           /\ msg.cmd.set \in Carried /\ msg.cmd.press \in BOOLEAN
BY DEF Delivery, Command

-----------------------------------------------------------------------------
(* Type correctness.                                                        *)

\* A message that the broker receives replaces the retained one and is
\* delivered to a service that listens.
LEMMA ReceiveIs ==
    ASSUME TypeOK, NEW cmd \in Command, Receive(cmd)
    PROVE  retained' \in Command /\ toUs' \in Seq(Delivery)
<1>1. [cmd |-> cmd, retained |-> FALSE] \in Delivery
  BY DEF Delivery
<1> QED BY <1>1, AppendProperties DEF Receive, TypeOK

\* What a writer expects is made of accepted settings.
LEMMA ExpectIs ==
    ASSUME TypeOK, NEW s \in Names, NEW v \in Values \cup {Bad}, Expect(s, v)
    PROVE  due' \in Chosen /\ known' \in BOOLEAN
<1>1. retained.set \in Carried
  BY DEF TypeOK, Command
<1>2. Held \in Chosen
  BY <1>1, ValidIs DEF Held, TypeOK
<1>3. Valid(Only(s, v)) \in Chosen
  BY OnlyIs, ValidIs
<1>4. Over(Held, Valid(Only(s, v))) \in Chosen
  BY <1>2, <1>3, OverChosen
<1> QED BY <1>4, NothingIs DEF Expect, Idle, TypeOK

\* One read command keeps the service's state typed.
LEMMA ListenTyped == ASSUME TypeOK, Listen PROVE TypeOK'
<1> DEFINE msg == Head(toUs)
<1>1. msg \in Delivery /\ Tail(toUs) \in Seq(Delivery)
  BY HeadTailProperties DEF Listen, TypeOK
<1>2. msg.cmd.set \in Carried
  BY <1>1, DeliveryIs
<1>3. /\ Over(pending, msg.cmd.set) \in Carried
      /\ Over(device, Valid(msg.cmd.set)) \in [Names -> Values]
      /\ DOMAIN Valid(msg.cmd.set) \subseteq Names
  BY <1>2, OverIs, OverDevice, ValidIs, ChosenIsCarried DEF TypeOK
<1>4. /\ device' \in [Names -> Values] /\ pending' \in Carried /\ partial' \in BOOLEAN
      /\ persisted' \subseteq Names /\ rotations' \in Nat
  <2>1. CASE msg.cmd = None
    BY <2>1 DEF Listen, TypeOK
  <2>2. CASE msg.cmd # None /\ ~registered
    <3>1. Keep(msg.cmd)
      BY <2>2 DEF Listen
    <3> QED BY <1>3, <3>1 DEF Keep, TypeOK
  <2>3. CASE msg.cmd # None /\ registered
    <3>1. Apply(msg.cmd, msg.retained)
      BY <2>3 DEF Listen
    <3> QED BY <1>3, <3>1 DEF Apply, TypeOK
  <2> QED BY <2>1, <2>2, <2>3
<1>5. Unpressed(msg) \in Seq(Command)
  <2>1. Message(msg.cmd.set, FALSE) \in Command
    BY <1>2, MessageIs
  <2> QED BY <1>1, <2>1, UnpressedIs, OneOf
<1>6. PublishSettings(device', persisted') \in Seq(Command)
  <2>1. Message(Current(device', persisted'), FALSE) \in Command
    BY <1>4, PublishIs, MessageIs
  <2>2. PublishSettings(device', persisted') \in Seq({Message(Current(device', persisted'), FALSE)})
    BY <1>4, PublishIs
  <2> QED BY <2>1, <2>2, OneOf
<1>7. toBroker' \in Seq(Command)
  <2>1. <<>> \in Seq(Command)
    BY EmptySeq
  <2>2. toBroker \o Unpressed(msg) \in Seq(Command)
    BY <1>5, ConcatProperties DEF TypeOK
  <2>3. \A t \in Seq(Command) : (toBroker \o Unpressed(msg)) \o t \in Seq(Command)
    BY <2>2, ConcatProperties
  <2>4. \A t \in Seq(Command) : Unpressed(msg) \o t \in Seq(Command)
    BY <1>5, ConcatProperties
  <2>5. \A t \in Seq(Command) : toBroker \o t \in Seq(Command)
    BY ConcatProperties DEF TypeOK
  <2> QED BY <1>6, <2>1, <2>2, <2>3, <2>4, <2>5 DEF Listen, TypeOK
<1>8. toUs' \in Seq(Delivery)
  BY <1>1 DEF Listen
<1> QED BY <1>4, <1>7, <1>8 DEF TypeOK, Listen, history

\* Every step keeps the variables typed.
LEMMA TypesKept == ASSUME TypeOK, [Next]_vars PROVE TypeOK'
<1>1. CASE Listen BY <1>1, ListenTyped
<1>2. CASE Register
  <2>1. Over(device, Valid(pending)) \in [Names -> Values] /\ DOMAIN Valid(pending) \subseteq Names
    BY OverDevice, ValidIs, ChosenIsCarried DEF TypeOK
  <2>2. replayDue' \in BOOLEAN /\ known' \in BOOLEAN
    BY <1>2 DEF Register, TypeOK
  <2> QED BY <1>2, <2>1, <2>2, NothingIs DEF Register, TypeOK, link
<1>3. CASE ReplayPublish
  <2>1. Message(Current(device, persisted), FALSE) \in Command
    BY PublishIs, MessageIs DEF TypeOK
  <2>2. PublishSettings(device, persisted) \in Seq(Command)
    <3>1. PublishSettings(device, persisted) \in Seq({Message(Current(device, persisted), FALSE)})
      BY PublishIs DEF TypeOK
    <3> QED BY <2>1, <3>1, OneOf
  <2>3. toBroker' \in Seq(Command)
    BY <1>3, <2>2, ConcatProperties DEF ReplayPublish, TypeOK
  <2> QED BY <1>3, <2>3 DEF ReplayPublish, TypeOK, history
<1>4. CASE BrokerReceives
  <2>1. Head(toBroker) \in Command /\ Tail(toBroker) \in Seq(Command)
    BY <1>4, HeadTailProperties DEF BrokerReceives, TypeOK
  <2> QED BY <1>4, <2>1, ReceiveIs DEF BrokerReceives, TypeOK, service, history
<1>5. CASE Connect
  <2>1. [cmd |-> retained, retained |-> TRUE] \in Delivery
    BY DEF Delivery, TypeOK
  <2>2. toUs' \in Seq(Delivery) /\ toBroker' \in Seq(Command)
    BY <1>5, <2>1, EmptySeq DEF Connect
  <2> QED BY <1>5, <2>2 DEF Connect, TypeOK, service, history
<1>6. CASE Drop
  <2>1. faults' \in 0..MaxFaults
    BY <1>6, SettingsAssumption DEF Drop, Fault, TypeOK
  <2> QED BY <1>6, <2>1, EmptySeq DEF Drop, TypeOK
<1>7. CASE Restart
  <2>1. faults' \in 0..MaxFaults
    BY <1>7, SettingsAssumption DEF Restart, Fault, TypeOK
  <2>2. known' \in BOOLEAN
    BY <1>7 DEF Restart, TypeOK
  <2> QED BY <1>7, <2>1, <2>2, EmptySeq, NothingIs, SettingsAssumption DEF Restart, TypeOK
<1>8. ASSUME NEW s \in Names, NEW v \in Values \cup {Bad}, HomeAssistantWrites(s, v)
      PROVE  TypeOK'
  <2>1. writes' \in 0..MaxWrites
    BY <1>8, SettingsAssumption DEF HomeAssistantWrites, Write, TypeOK
  <2>2. Message(Only(s, v), FALSE) \in Command
    BY OnlyIs, MessageIs
  <2>3. retained' \in Command /\ toUs' \in Seq(Delivery)
    BY <1>8, <2>2, ReceiveIs DEF HomeAssistantWrites
  <2>4. due' \in Chosen /\ known' \in BOOLEAN
    BY <1>8, ExpectIs DEF HomeAssistantWrites
  <2> QED BY <1>8, <2>1, <2>3, <2>4 DEF HomeAssistantWrites, TypeOK, Chosen, service
<1>9. ASSUME NEW s \in Names, NEW v \in Values, DashboardWrites(s, v)
      PROVE  TypeOK'
  <2>1. writes' \in 0..MaxWrites
    BY <1>9, SettingsAssumption DEF DashboardWrites, Write, TypeOK
  <2>2. device' \in [Names -> Values] /\ persisted' \subseteq Names
    BY <1>9 DEF DashboardWrites, TypeOK
  <2>3. Message(Current(device', persisted'), FALSE) \in Command
    BY <2>2, PublishIs, MessageIs
  <2>4. PublishSettings(device', persisted') \in Seq(Command)
    <3>1. PublishSettings(device', persisted') \in Seq({Message(Current(device', persisted'), FALSE)})
      BY <2>2, PublishIs
    <3> QED BY <2>3, <3>1, OneOf
  <2>5. toBroker' \in Seq(Command)
    <3>1. toBroker \o PublishSettings(device', persisted') \in Seq(Command)
      BY <2>4, ConcatProperties DEF TypeOK
    <3> QED BY <1>9, <3>1 DEF DashboardWrites, TypeOK
  <2>6. due' \in Chosen /\ known' \in BOOLEAN
    BY <1>9, ExpectIs DEF DashboardWrites
  <2> QED BY <1>9, <2>1, <2>2, <2>5, <2>6 DEF DashboardWrites, TypeOK, Chosen
<1>10. CASE ButtonPressed
  <2>1. writes' \in 0..MaxWrites
    BY <1>10, SettingsAssumption DEF ButtonPressed, Write, TypeOK
  <2>2. [cmd |-> Message(<<>>, TRUE), retained |-> FALSE] \in Delivery
    BY NothingIs, MessageIs
  <2>3. toUs' \in Seq(Delivery)
    BY <1>10, <2>2, AppendProperties DEF ButtonPressed, TypeOK
  <2> QED BY <1>10, <2>1, <2>3 DEF ButtonPressed, TypeOK, service
<1>11. CASE Cleared
  <2>1. writes' \in 0..MaxWrites
    BY <1>11, SettingsAssumption DEF Cleared, Write, TypeOK
  <2>2. retained' \in Command /\ toUs' \in Seq(Delivery)
    BY <1>11, NoneIs, ReceiveIs DEF Cleared
  <2>3. due' \in Chosen
    BY <1>11, NothingIs DEF Cleared
  <2> QED BY <1>11, <2>1, <2>2, <2>3 DEF Cleared, TypeOK, Chosen, service
<1>12. CASE UNCHANGED vars
  BY <1>12 DEF TypeOK, vars, service, link, history
<1> QED BY <1>1, <1>2, <1>3, <1>4, <1>5, <1>6, <1>7, <1>8, <1>9, <1>10, <1>11, <1>12 DEF Next

\* The initial state is typed, whatever an earlier run left on the broker.
LEMMA TypesAtStart == ASSUME Init PROVE TypeOK
<1>1. retained \in Command
  <2>1. PICK s \in Names, v \in Values, press \in BOOLEAN :
          retained \in {None, Message(<<>>, TRUE), Message(Only(s, v), press)}
    BY DEF Init
  <2>2. Only(s, v) \in Carried
    BY OnlyIs
  <2> QED BY <2>1, <2>2, NoneIs, NothingIs, MessageIs
<1>2. 0 \in 0..MaxWrites /\ 0 \in 0..MaxFaults
  BY SettingsAssumption
<1>3. <<>> \in Seq(Delivery) /\ <<>> \in Seq(Command)
  BY EmptySeq
<1> QED BY <1>1, <1>2, <1>3, NothingIs, SettingsAssumption DEF Init, TypeOK, Chosen

-----------------------------------------------------------------------------
(* Presses.                                                                 *)

\* A message that forces a rotation when it is read.
IsPress(m) == m.cmd.press /\ ~m.retained
PressesIn(seq) == {i \in 1 .. Len(seq) : IsPress(seq[i])}

\* A press comes from a button and carries nothing else; the service presses
\* none.
Quiet == {c \in Command : ~c.press}
Readable == {m \in Delivery : IsPress(m) => DOMAIN m.cmd.set = {}}
ButtonsOnly == toBroker \in Seq(Quiet) /\ toUs \in Seq(Readable)

\* Every rotation was pressed for, and so is every press still to be read.
PressesCount == rotations + Cardinality(PressesIn(toUs)) <= presses

\* The presses in a sequence are a finite set of indices.
LEMMA PressesFinite ==
    ASSUME NEW seq \in Seq(Delivery)
    PROVE  IsFiniteSet(PressesIn(seq)) /\ Cardinality(PressesIn(seq)) \in Nat
<1>1. Len(seq) \in Nat
  BY LenProperties
<1>2. IsFiniteSet(1 .. Len(seq)) /\ PressesIn(seq) \subseteq 1 .. Len(seq)
  BY <1>1, FS_Interval DEF PressesIn
<1> QED BY <1>2, FS_Subset, FS_CardinalityType

\* A message that is appended adds one press or none.
LEMMA PressesAppended ==
    ASSUME NEW seq \in Seq(Delivery), NEW m \in Delivery
    PROVE  Cardinality(PressesIn(Append(seq, m)))
             = Cardinality(PressesIn(seq)) + IF IsPress(m) THEN 1 ELSE 0
<1> DEFINE n == Len(seq) + 1
<1>1. /\ Len(seq) \in Nat /\ Len(Append(seq, m)) = n
      /\ \A i \in 1 .. Len(seq) : Append(seq, m)[i] = seq[i]
      /\ Append(seq, m)[n] = m
  BY LenProperties, AppendProperties
<1>2. 1 .. n = (1 .. Len(seq)) \cup {n}
  BY <1>1
<1>3. PressesIn(Append(seq, m)) = PressesIn(seq) \cup IF IsPress(m) THEN {n} ELSE {}
  BY <1>1, <1>2 DEF PressesIn
<1>4. n \notin PressesIn(seq)
  BY <1>1 DEF PressesIn
<1>5. CASE IsPress(m)
  <2>1. PressesIn(Append(seq, m)) = PressesIn(seq) \cup {n}
    BY <1>3, <1>5
  <2> QED BY <1>4, <1>5, <2>1, PressesFinite, FS_AddElement
<1>6. CASE ~IsPress(m)
  <2>1. PressesIn(Append(seq, m)) = PressesIn(seq)
    BY <1>3, <1>6
  <2> QED BY <1>6, <2>1, PressesFinite
<1> QED BY <1>5, <1>6

\* Reading the first message takes its press away.
LEMMA PressesRead ==
    ASSUME NEW seq \in Seq(Delivery), seq # <<>>
    PROVE  Cardinality(PressesIn(seq))
             = Cardinality(PressesIn(Tail(seq))) + IF IsPress(Head(seq)) THEN 1 ELSE 0
<1> DEFINE rest == PressesIn(seq) \ {1}
           f == [i \in PressesIn(Tail(seq)) |-> i + 1]
<1>1. /\ Len(seq) \in Nat \ {0} /\ Len(Tail(seq)) = Len(seq) - 1
      /\ Head(seq) = seq[1] /\ Tail(seq) \in Seq(Delivery)
      /\ \A i \in 1 .. Len(Tail(seq)) : Tail(seq)[i] = seq[i + 1]
  BY EmptySeq, HeadTailProperties
<1>2. f \in Bijection(PressesIn(Tail(seq)), rest)
  <2>1. ASSUME NEW i \in PressesIn(Tail(seq)) PROVE f[i] \in rest
    <3>1. i \in 1 .. Len(Tail(seq)) /\ IsPress(Tail(seq)[i])
      BY DEF PressesIn
    <3>2. i + 1 \in 1 .. Len(seq) /\ i + 1 # 1 /\ IsPress(seq[i + 1])
      BY <1>1, <3>1
    <3> QED BY <3>2 DEF PressesIn
  <2>2. ASSUME NEW j \in rest PROVE \E i \in PressesIn(Tail(seq)) : f[i] = j
    <3>1. j \in 1 .. Len(seq) /\ j # 1 /\ IsPress(seq[j])
      BY DEF PressesIn
    <3>2. j - 1 \in 1 .. Len(Tail(seq)) /\ (j - 1) + 1 = j
      BY <1>1, <3>1
    <3>3. j - 1 \in PressesIn(Tail(seq))
      BY <1>1, <3>1, <3>2 DEF PressesIn
    <3> QED BY <3>2, <3>3
  <2>3. \A i, j \in PressesIn(Tail(seq)) : f[i] = f[j] => i = j
    BY <1>1 DEF PressesIn
  <2> QED BY <2>1, <2>2, <2>3 DEF Bijection, Injection, Surjection, IsInjective
<1>3. Cardinality(rest) = Cardinality(PressesIn(Tail(seq)))
  <2>1. ExistsBijection(PressesIn(Tail(seq)), rest)
    BY <1>2 DEF ExistsBijection
  <2> QED BY <1>1, <2>1, PressesFinite, FS_Bijection
<1>4. 1 \in PressesIn(seq) <=> IsPress(Head(seq))
  BY <1>1 DEF PressesIn
<1>5. CASE IsPress(Head(seq))
  <2>1. Cardinality(PressesIn(seq)) \in Nat /\ IsFiniteSet(PressesIn(seq))
    BY PressesFinite
  <2>2. Cardinality(PressesIn(seq) \ {1}) = Cardinality(PressesIn(seq)) - 1
    BY <1>4, <1>5, <2>1, FS_RemoveElement
  <2> QED BY <1>3, <1>5, <2>1, <2>2
<1>6. CASE ~IsPress(Head(seq))
  <2>1. PressesIn(seq) \ {1} = PressesIn(seq)
    BY <1>4, <1>6
  <2>2. Cardinality(PressesIn(seq)) \in Nat
    BY PressesFinite
  <2>3. Cardinality(PressesIn(seq)) = Cardinality(PressesIn(Tail(seq)))
    BY <1>3, <2>1
  <2> QED BY <1>6, <2>2, <2>3
<1> QED BY <1>5, <1>6

\* What the service publishes is quiet.
LEMMA PublishQuiet ==
    ASSUME NEW dev \in [Names -> Values], NEW names \in SUBSET Names
    PROVE  PublishSettings(dev, names) \in Seq(Quiet)
<1>1. Message(Current(dev, names), FALSE) \in Quiet
  BY PublishIs, MessageIs DEF Quiet
<1>2. PublishSettings(dev, names) \in Seq({Message(Current(dev, names), FALSE)})
  BY PublishIs
<1> QED BY <1>1, <1>2, OneOf

\* So is a topic rewritten without its press.
LEMMA UnpressedQuiet ==
    ASSUME NEW msg \in Delivery
    PROVE  Unpressed(msg) \in Seq(Quiet)
<1>1. Message(msg.cmd.set, FALSE) \in Quiet
  BY DeliveryIs, MessageIs DEF Quiet
<1> QED BY <1>1, UnpressedIs, OneOf

\* What the service sends while it reads a command: nothing for one that is
\* empty, the topic without its press, and, for a device that has registered,
\* the settings whole unless the command held them all.
LEMMA Answered ==
    ASSUME TypeOK, Listen, NEW msg, msg = Head(toUs)
    PROVE  /\ msg \in Delivery /\ msg.cmd.set \in Carried
           /\ device' \in [Names -> Values] /\ persisted' \in SUBSET Names
           /\ \/ msg.cmd = None /\ UNCHANGED <<device, pending, partial, persisted, rotations, toBroker>>
              \/ /\ msg.cmd # None /\ ~registered /\ Keep(msg.cmd)
                 /\ toBroker' = toBroker \o Unpressed(msg)
              \/ /\ msg.cmd # None /\ registered /\ Apply(msg.cmd, msg.retained)
                 /\ \/ /\ Holds(device', persisted', msg.cmd.set)
                       /\ toBroker' = toBroker \o Unpressed(msg)
                    \/ /\ ~Holds(device', persisted', msg.cmd.set)
                       /\ toBroker' = (toBroker \o Unpressed(msg)) \o PublishSettings(device', persisted')
<1>1. msg \in Delivery
  BY HeadTailProperties DEF Listen, TypeOK
<1>2. msg.cmd.set \in Carried
  BY <1>1, DeliveryIs
<1>3. TypeOK'
  BY TypesKept DEF Next
<1>4. device' \in [Names -> Values] /\ persisted' \in SUBSET Names
  BY <1>3 DEF TypeOK
<1>5. Unpressed(msg) \in Seq(Command) /\ toBroker \in Seq(Command)
  <2>1. Quiet \subseteq Command
    BY DEF Quiet
  <2>2. Unpressed(msg) \in Seq(Command)
    BY <1>1, <2>1, UnpressedQuiet, SeqMonotonic
  <2> QED BY <2>2 DEF TypeOK
<1>6. Unpressed(msg) \o <<>> = Unpressed(msg)
  BY <1>5, ConcatEmptySeq
<1>7. toBroker \o Unpressed(msg) \in Seq(Command)
  BY <1>5, ConcatProperties
<1>8. (toBroker \o Unpressed(msg)) \o <<>> = toBroker \o Unpressed(msg)
  BY <1>7, ConcatEmptySeq
<1>9. PublishSettings(device', persisted') \in Seq(Command)
  <2>1. Quiet \subseteq Command
    BY DEF Quiet
  <2> QED BY <1>4, <2>1, PublishQuiet, SeqMonotonic
<1>10. toBroker \o (Unpressed(msg) \o PublishSettings(device', persisted'))
         = (toBroker \o Unpressed(msg)) \o PublishSettings(device', persisted')
  BY SMTT(30), <1>5, <1>9, ConcatAssociative
<1>11. CASE Holds(device', persisted', msg.cmd.set)
  BY <1>1, <1>2, <1>4, <1>6, <1>8, <1>11 DEF Listen
<1>12. CASE ~Holds(device', persisted', msg.cmd.set)
  BY <1>1, <1>2, <1>4, <1>10, <1>12 DEF Listen
<1> QED BY <1>11, <1>12

\* The messages of both directions keep their shape.
LEMMA ButtonsKept == ASSUME TypeOK, ButtonsOnly, [Next]_vars PROVE ButtonsOnly'
<1> USE DEF ButtonsOnly
<1>0. ASSUME NEW set \in Carried
      PROVE  [cmd |-> Message(set, FALSE), retained |-> FALSE] \in Readable
  BY <1>0, MessageIs DEF Readable, IsPress
<1>00. ASSUME NEW cmd \in Quiet, Receive(cmd) PROVE toUs' \in Seq(Readable)
  <2>1. [cmd |-> cmd, retained |-> FALSE] \in Readable
    BY DEF Readable, IsPress, Quiet, Delivery
  <2> QED BY <1>00, <2>1, AppendProperties DEF Receive
<1>1. CASE Listen
  <2>1. PICK msg : msg = Head(toUs)
    OBVIOUS
  <2>2. toUs' \in Seq(Readable)
    BY <1>1, HeadTailProperties DEF Listen
  <2>3. Unpressed(msg) \in Seq(Quiet) /\ PublishSettings(device', persisted') \in Seq(Quiet)
    BY <1>1, <2>1, Answered, UnpressedQuiet, PublishQuiet
  <2>4. toBroker \o Unpressed(msg) \in Seq(Quiet)
    BY <2>3, ConcatProperties
  <2>5. (toBroker \o Unpressed(msg)) \o PublishSettings(device', persisted') \in Seq(Quiet)
    BY <2>3, <2>4, ConcatProperties
  <2>6. toBroker' \in Seq(Quiet)
    BY <1>1, <2>1, <2>4, <2>5, Answered
  <2> QED BY <2>2, <2>6
<1>2. CASE Register
  BY <1>2 DEF Register, link
<1>3. CASE ReplayPublish
  <2>1. PublishSettings(device, persisted) \in Seq(Quiet)
    BY PublishQuiet DEF TypeOK
  <2> QED BY <1>3, <2>1, ConcatProperties DEF ReplayPublish
<1>4. CASE BrokerReceives
  <2>1. Head(toBroker) \in Quiet /\ Tail(toBroker) \in Seq(Quiet)
    BY <1>4, HeadTailProperties DEF BrokerReceives
  <2> QED BY <1>4, <2>1, <1>00 DEF BrokerReceives
<1>5. CASE Connect
  <2>1. [cmd |-> retained, retained |-> TRUE] \in Readable
    BY DEF Readable, IsPress, Delivery, TypeOK
  <2>2. <<[cmd |-> retained, retained |-> TRUE]>> \in Seq(Readable)
    BY <2>1
  <2> QED BY <1>5, <2>2, EmptySeq DEF Connect
<1>6. CASE Drop
  BY <1>6, EmptySeq DEF Drop
<1>7. CASE Restart
  BY <1>7, EmptySeq DEF Restart
<1>8. ASSUME NEW s \in Names, NEW v \in Values \cup {Bad}, HomeAssistantWrites(s, v)
      PROVE  ButtonsOnly'
  <2>1. Message(Only(s, v), FALSE) \in Quiet
    BY OnlyIs, MessageIs DEF Quiet
  <2> QED BY <1>8, <2>1, <1>00 DEF HomeAssistantWrites
<1>9. ASSUME NEW s \in Names, NEW v \in Values, DashboardWrites(s, v)
      PROVE  ButtonsOnly'
  <2>1. TypeOK'
    BY <1>9, TypesKept DEF Next
  <2>2. PublishSettings(device', persisted') \in Seq(Quiet)
    BY <2>1, PublishQuiet DEF TypeOK
  <2>3. toBroker \o PublishSettings(device', persisted') \in Seq(Quiet)
    BY <2>2, ConcatProperties
  <2> QED BY <1>9, <2>3 DEF DashboardWrites
<1>10. CASE ButtonPressed
  <2>1. [cmd |-> Message(<<>>, TRUE), retained |-> FALSE] \in Readable
    BY NothingIs, MessageIs DEF Readable
  <2> QED BY <1>10, <2>1, AppendProperties DEF ButtonPressed
<1>11. CASE Cleared
  <2>1. None \in Quiet
    BY NoneIs DEF Quiet
  <2> QED BY <1>11, <2>1, <1>00 DEF Cleared
<1>12. CASE UNCHANGED vars
  BY <1>12 DEF vars, link
<1> QED BY <1>1, <1>2, <1>3, <1>4, <1>5, <1>6, <1>7, <1>8, <1>9, <1>10, <1>11, <1>12 DEF Next

\* No step repeats a press.
LEMMA PressesKept ==
    ASSUME TypeOK, ButtonsOnly, PressesCount, [Next]_vars
    PROVE  PressesCount'
<1> USE DEF PressesCount
<1>0. /\ toUs \in Seq(Delivery) /\ rotations \in Nat /\ presses \in Nat
      /\ Cardinality(PressesIn(toUs)) \in Nat
  BY PressesFinite DEF TypeOK
<1>00. PressesIn(<<>>) = {} /\ Cardinality({}) = 0
  BY EmptySeq, FS_EmptySet DEF PressesIn
<1>000. ASSUME NEW cmd \in Command, ~cmd.press, Receive(cmd), UNCHANGED <<rotations, presses>>
        PROVE  PressesCount'
  <2>1. [cmd |-> cmd, retained |-> FALSE] \in Delivery /\ ~IsPress([cmd |-> cmd, retained |-> FALSE])
    BY <1>000 DEF Delivery, IsPress
  <2>2. Cardinality(PressesIn(Append(toUs, [cmd |-> cmd, retained |-> FALSE])))
          = Cardinality(PressesIn(toUs))
    BY <1>0, <2>1, PressesAppended
  <2> QED BY <1>000, <2>2 DEF Receive
<1>1. CASE Listen
  <2>1. PICK msg : msg = Head(toUs)
    OBVIOUS
  <2>2. toUs # <<>> /\ toUs' = Tail(toUs) /\ presses' = presses
    BY <1>1 DEF Listen, history
  <2>3. Tail(toUs) \in Seq(Delivery) /\ Cardinality(PressesIn(Tail(toUs))) \in Nat
    BY <1>0, <2>2, HeadTailProperties, PressesFinite
  <2>4. Cardinality(PressesIn(toUs)) = Cardinality(PressesIn(toUs')) + IF IsPress(msg) THEN 1 ELSE 0
    BY <1>0, <2>1, <2>2, PressesRead
  <2>5. rotations' = rotations \/ (IsPress(msg) /\ rotations' = rotations + 1)
    BY <1>0, <1>1, <2>1, Answered DEF Keep, Apply, IsPress
  <2> QED BY <1>0, <2>2, <2>3, <2>4, <2>5
<1>2. CASE Register \/ ReplayPublish \/ UNCHANGED vars
  BY <1>2 DEF Register, ReplayPublish, link, history, vars, service
<1>3. CASE BrokerReceives
  <2>1. Head(toBroker) \in Quiet
    BY <1>3, HeadTailProperties DEF BrokerReceives, ButtonsOnly
  <2> QED BY <1>3, <2>1, <1>000 DEF BrokerReceives, Quiet, service, history
<1>4. CASE Connect
  <2>1. [cmd |-> retained, retained |-> TRUE] \in Delivery
    BY DEF Delivery, TypeOK
  <2>2. PressesIn(<<[cmd |-> retained, retained |-> TRUE]>>) = {}
    BY DEF PressesIn, IsPress
  <2>3. PressesIn(toUs') = {}
    BY <1>4, <1>00, <2>2 DEF Connect
  <2>4. Cardinality(PressesIn(toUs')) = 0
    BY <1>00, <2>3
  <2>5. rotations' = rotations /\ presses' = presses
    BY <1>4 DEF Connect, service, history
  <2> QED BY <1>0, <2>4, <2>5
<1>5. CASE Drop \/ Restart
  <2>1. toUs' = <<>> /\ rotations' = rotations /\ presses' = presses
    BY <1>5 DEF Drop, Restart
  <2>2. Cardinality(PressesIn(toUs')) = 0
    BY <1>00, <2>1
  <2> QED BY <1>0, <2>1, <2>2
<1>6. ASSUME NEW s \in Names, NEW v \in Values \cup {Bad}, HomeAssistantWrites(s, v)
      PROVE  PressesCount'
  BY <1>6, <1>000, OnlyIs, MessageIs DEF HomeAssistantWrites, service
<1>7. ASSUME NEW s \in Names, NEW v \in Values, DashboardWrites(s, v)
      PROVE  PressesCount'
  BY <1>7 DEF DashboardWrites
<1>8. CASE ButtonPressed
  <2>1. [cmd |-> Message(<<>>, TRUE), retained |-> FALSE] \in Delivery
    BY NothingIs, MessageIs
  <2>2. Cardinality(PressesIn(Append(toUs, [cmd |-> Message(<<>>, TRUE), retained |-> FALSE])))
          <= Cardinality(PressesIn(toUs)) + 1
    BY <1>0, <2>1, PressesAppended
  <2>3. Cardinality(PressesIn(toUs')) \in Nat
    BY <1>8, TypesKept, PressesFinite DEF Next, TypeOK
  <2> QED BY <1>0, <1>8, <2>2, <2>3 DEF ButtonPressed, service
<1>9. CASE Cleared
  BY <1>9, <1>000, NoneIs DEF Cleared, service
<1> QED BY <1>1, <1>2, <1>3, <1>4, <1>5, <1>6, <1>7, <1>8, <1>9 DEF Next

-----------------------------------------------------------------------------
(* What the service is about to read.                                       *)

\* A sequence holds a message that came from the topic.
Reading(seq) == \E i \in 1 .. Len(seq) : ~IsPress(seq[i])

\* The last message that came from the topic is the one it retains.
Latest(seq, cmd) ==
    \A i \in 1 .. Len(seq) :
        ~IsPress(seq[i]) /\ (\A j \in i + 1 .. Len(seq) : IsPress(seq[j]))
            => seq[i].cmd = cmd

LastRead == Latest(toUs, retained)

\* A message from the topic is the last one; a press leaves the last one.
LEMMA LatestAppended ==
    ASSUME NEW seq \in Seq(Delivery), NEW m \in Delivery
    PROVE  /\ ~IsPress(m) => Reading(Append(seq, m)) /\ Latest(Append(seq, m), m.cmd)
           /\ \A cmd : IsPress(m) /\ Latest(seq, cmd) => Latest(Append(seq, m), cmd)
           /\ Reading(seq) => Reading(Append(seq, m))
<1> DEFINE n == Len(seq) + 1
           more == Append(seq, m)
<1>1. /\ Len(seq) \in Nat /\ Len(more) = n
      /\ \A i \in 1 .. Len(seq) : more[i] = seq[i]
      /\ more[n] = m
  BY LenProperties, AppendProperties
<1>2. 1 .. n = (1 .. Len(seq)) \cup {n} /\ n \in 1 .. n
  BY <1>1
<1>3. \A i \in 1 .. Len(seq) : n \in i + 1 .. n
  BY <1>1
<1>4. \A i \in 1 .. Len(seq) : \A j \in i + 1 .. Len(seq) : j \in 1 .. Len(seq) /\ j \in i + 1 .. n
  BY <1>1
<1> HIDE DEF n, more
<1>5. ~IsPress(m) => Reading(more) /\ Latest(more, m.cmd)
  BY <1>1, <1>2, <1>3 DEF Reading, Latest
<1>6. ASSUME NEW cmd, IsPress(m), Latest(seq, cmd) PROVE Latest(more, cmd)
  <2> SUFFICES ASSUME NEW i \in 1 .. n, ~IsPress(more[i]),
                      \A j \in i + 1 .. n : IsPress(more[j])
               PROVE  more[i].cmd = cmd
    BY <1>1 DEF Latest
  <2>1. i \in 1 .. Len(seq)
    BY <1>1, <1>2, <1>6
  <2>2. \A j \in i + 1 .. Len(seq) : IsPress(seq[j])
    BY <1>1, <1>4, <2>1
  <2> QED BY <1>1, <1>6, <2>1, <2>2 DEF Latest
<1>7. Reading(seq) => Reading(more)
  BY <1>1, <1>2 DEF Reading
<1> QED BY <1>5, <1>6, <1>7 DEF more

\* Reading the first message leaves the last one; when nothing is left to
\* read the first was the last.
LEMMA LatestTail ==
    ASSUME NEW seq \in Seq(Delivery), seq # <<>>, NEW cmd, Latest(seq, cmd)
    PROVE  /\ Latest(Tail(seq), cmd)
           /\ Reading(seq) => Reading(Tail(seq)) \/ ~IsPress(Head(seq))
           /\ ~Reading(Tail(seq)) /\ ~IsPress(Head(seq)) => Head(seq).cmd = cmd
<1>1. /\ Len(seq) \in Nat \ {0} /\ Len(Tail(seq)) = Len(seq) - 1
      /\ Head(seq) = seq[1] /\ Tail(seq) \in Seq(Delivery)
      /\ \A i \in 1 .. Len(Tail(seq)) : Tail(seq)[i] = seq[i + 1]
  BY EmptySeq, HeadTailProperties
<1>2. \A j \in 2 .. Len(seq) : j - 1 \in 1 .. Len(Tail(seq)) /\ Tail(seq)[j - 1] = seq[j]
  <2> SUFFICES ASSUME NEW j \in 2 .. Len(seq)
               PROVE  j - 1 \in 1 .. Len(Tail(seq)) /\ Tail(seq)[j - 1] = seq[j]
    OBVIOUS
  <2>1. j - 1 \in 1 .. Len(Tail(seq)) /\ (j - 1) + 1 = j
    BY <1>1
  <2> QED BY <1>1, <2>1
<1>3. Latest(Tail(seq), cmd)
  <2> SUFFICES ASSUME NEW i \in 1 .. Len(Tail(seq)), ~IsPress(Tail(seq)[i]),
                      \A j \in i + 1 .. Len(Tail(seq)) : IsPress(Tail(seq)[j])
               PROVE  Tail(seq)[i].cmd = cmd
    BY DEF Latest
  <2>1. i + 1 \in 1 .. Len(seq) /\ Tail(seq)[i] = seq[i + 1]
    BY <1>1
  <2>2. ASSUME NEW j \in (i + 1) + 1 .. Len(seq) PROVE IsPress(seq[j])
    <3>1. j - 1 \in i + 1 .. Len(Tail(seq)) /\ j \in 2 .. Len(seq)
      BY <1>1
    <3> QED BY <1>2, <3>1
  <2> QED BY <2>1, <2>2 DEF Latest
<1>4. Reading(seq) => Reading(Tail(seq)) \/ ~IsPress(Head(seq))
  <2>1. \A j \in 1 .. Len(seq) : j = 1 \/ j \in 2 .. Len(seq)
    BY <1>1
  <2> QED BY <1>1, <1>2, <2>1 DEF Reading
<1>5. ~Reading(Tail(seq)) /\ ~IsPress(Head(seq)) => Head(seq).cmd = cmd
  <2>1. 1 \in 1 .. Len(seq) /\ 1 + 1 = 2
    BY <1>1
  <2> QED BY <1>1, <1>2, <2>1 DEF Reading, Latest
<1> QED BY <1>3, <1>4, <1>5

\* Nothing to read, or one message that came from the topic.
LEMMA LatestOne ==
    /\ \A cmd : Latest(<<>>, cmd)
    /\ \A cmd : Latest(<<[cmd |-> cmd, retained |-> TRUE]>>, cmd)
                  /\ Reading(<<[cmd |-> cmd, retained |-> TRUE]>>)
BY EmptySeq DEF Latest, Reading, IsPress

\* Sequences that are put together are empty only when both are.
LEMMA GrownIsNotEmpty ==
    ASSUME NEW S, NEW s \in Seq(S), NEW t \in Seq(S), s # <<>> \/ t # <<>>
    PROVE  s \o t # <<>>
BY ConcatEqualIffEmpty, EmptySeq, ConcatSimplifications

-----------------------------------------------------------------------------
(* What the broker retains and what the device runs with come together.     *)

\* A device that has not registered has had nothing set or published.
Fresh == ~registered => persisted = {} /\ ~replayDue

\* Nothing is read or published without a connection.
Offline == ~up => toUs = <<>> /\ ~replayDue

\* The topic carries the persisted settings and no other valid one.
Agrees ==
    \A s \in Names :
        /\ s \in persisted <=> s \in DOMAIN retained.set /\ retained.set[s] # Bad
        /\ s \in persisted => retained.set[s] = device[s]

\* What the topic carries is kept for a device that has not registered; when
\* more is kept, that is known.
Awaited ==
    /\ \A s \in DOMAIN retained.set : s \in DOMAIN pending /\ pending[s] = retained.set[s]
    /\ partial \/ DOMAIN pending \subseteq DOMAIN retained.set

\* While there is a connection, the service is going to publish, is going to
\* read, or has read what the topic carries.
Converges ==
    up => \/ toBroker # <<>>
          \/ replayDue /\ persisted # {}
          \/ Reading(toUs)
          \/ retained = None
          \/ ~retained.press /\ IF registered THEN Agrees ELSE Awaited

\* The device registers and the link comes and goes.
LEMMA LinkKept ==
    ASSUME TypeOK, Fresh, Offline, [Next]_vars
    PROVE  Fresh' /\ Offline'
<1> USE DEF Fresh, Offline
<1>1. CASE Listen
  BY <1>1 DEF Listen, Keep, Apply
<1>2. CASE Register BY <1>2 DEF Register, link, TypeOK
<1>3. CASE ReplayPublish BY <1>3 DEF ReplayPublish
<1>4. CASE BrokerReceives
  BY <1>4 DEF BrokerReceives, Receive, service
<1>5. CASE Connect BY <1>5 DEF Connect, service
<1>6. CASE Drop \/ Restart
  BY <1>6 DEF Drop, Restart
<1>7. ASSUME NEW s \in Names, NEW v \in Values \cup {Bad}, HomeAssistantWrites(s, v)
      PROVE  Fresh' /\ Offline'
  BY <1>7 DEF HomeAssistantWrites, Receive, service
<1>8. ASSUME NEW s \in Names, NEW v \in Values, DashboardWrites(s, v)
      PROVE  Fresh' /\ Offline'
  BY <1>8 DEF DashboardWrites
<1>9. CASE ButtonPressed \/ Cleared
  BY <1>9 DEF ButtonPressed, Cleared, Receive, service
<1>10. CASE UNCHANGED vars
  BY <1>10 DEF vars, service, link
<1> QED BY <1>1, <1>2, <1>3, <1>4, <1>5, <1>6, <1>7, <1>8, <1>9, <1>10 DEF Next

\* A message that reaches the topic is the one a service that listens reads
\* last.
LEMMA ReceivedIsLast ==
    ASSUME TypeOK, Offline, NEW cmd \in Command, ~cmd.press, Receive(cmd)
    PROVE  LastRead' /\ (up => Reading(toUs'))
<1> DEFINE m == [cmd |-> cmd, retained |-> FALSE]
<1>1. m \in Delivery /\ ~IsPress(m) /\ m.cmd = cmd
  BY DEF Delivery, IsPress
<1>2. toUs \in Seq(Delivery)
  BY DEF TypeOK
<1>3. Reading(Append(toUs, m)) /\ Latest(Append(toUs, m), cmd)
  BY <1>1, <1>2, LatestAppended
<1>4. CASE up
  <2>1. toUs' = Append(toUs, m) /\ retained' = cmd
    BY <1>4 DEF Receive
  <2> QED BY <1>3, <2>1 DEF LastRead
<1>5. CASE ~up
  <2>1. toUs' = <<>>
    BY <1>5 DEF Receive, Offline
  <2> QED BY <1>5, <2>1, LatestOne DEF LastRead
<1> QED BY <1>4, <1>5

\* What is read last is what the topic retains.
LEMMA LastReadKept ==
    ASSUME TypeOK, ButtonsOnly, Offline, LastRead, [Next]_vars
    PROVE  LastRead'
<1>0. toUs \in Seq(Delivery)
  BY DEF TypeOK
<1>1. CASE Listen
  <2>1. toUs # <<>> /\ toUs' = Tail(toUs) /\ retained' = retained
    BY <1>1 DEF Listen
  <2>2. Latest(Tail(toUs), retained)
    BY <1>0, <2>1, LatestTail DEF LastRead
  <2> QED BY <2>1, <2>2 DEF LastRead
<1>2. CASE Register \/ ReplayPublish \/ UNCHANGED vars
  BY <1>2 DEF Register, ReplayPublish, link, vars, LastRead
<1>3. CASE BrokerReceives
  <2>1. Head(toBroker) \in Quiet
    BY <1>3, HeadTailProperties DEF BrokerReceives, ButtonsOnly
  <2> QED BY <1>3, <2>1, ReceivedIsLast DEF BrokerReceives, Quiet
<1>4. CASE Connect
  BY <1>4, LatestOne DEF Connect, LastRead
<1>5. CASE Drop \/ Restart
  BY <1>5, LatestOne DEF Drop, Restart, LastRead
<1>6. ASSUME NEW s \in Names, NEW v \in Values \cup {Bad}, HomeAssistantWrites(s, v)
      PROVE  LastRead'
  BY <1>6, ReceivedIsLast, OnlyIs, MessageIs DEF HomeAssistantWrites
<1>7. ASSUME NEW s \in Names, NEW v \in Values, DashboardWrites(s, v)
      PROVE  LastRead'
  BY <1>7 DEF DashboardWrites, LastRead
<1>8. CASE ButtonPressed
  <2>1. /\ [cmd |-> Message(<<>>, TRUE), retained |-> FALSE] \in Delivery
        /\ IsPress([cmd |-> Message(<<>>, TRUE), retained |-> FALSE])
    BY NothingIs, MessageIs DEF IsPress, Delivery
  <2>2. Latest(Append(toUs, [cmd |-> Message(<<>>, TRUE), retained |-> FALSE]), retained)
    BY <1>0, <2>1, LatestAppended DEF LastRead
  <2> QED BY <1>8, <2>2 DEF ButtonPressed, LastRead
<1>9. CASE Cleared
  BY <1>9, ReceivedIsLast, NoneIs DEF Cleared
<1> QED BY <1>1, <1>2, <1>3, <1>4, <1>5, <1>6, <1>7, <1>8, <1>9 DEF Next

\* A command that is read while nothing else is left to read leaves the
\* service publishing, or in agreement with the topic.
LEMMA ListenConverges ==
    ASSUME TypeOK, ButtonsOnly, LastRead, Converges, Listen
    PROVE  Converges'
<1>1. PICK msg : msg = Head(toUs)
  OBVIOUS
<1>2. /\ toUs \in Seq(Delivery) /\ toUs # <<>> /\ toUs' = Tail(toUs) /\ up
      /\ UNCHANGED <<registered, replayDue, up, retained>>
  BY <1>1 DEF Listen, TypeOK
<1>3. /\ msg \in Delivery /\ msg.cmd.set \in Carried
      /\ device' \in [Names -> Values] /\ persisted' \in SUBSET Names
  BY <1>1, Answered
<1>4. msg \in Readable
  BY <1>1, <1>2, HeadTailProperties DEF ButtonsOnly
<1>5. SUFFICES ASSUME ~Reading(Tail(toUs)) PROVE Converges'
  BY <1>2 DEF Converges
<1>6. /\ Reading(toUs) => ~IsPress(msg)
      /\ ~IsPress(msg) => msg.cmd = retained
  BY <1>1, <1>2, <1>5, LatestTail DEF LastRead
<1>7. /\ toBroker \in Seq(Quiet) /\ Unpressed(msg) \in Seq(Quiet)
      /\ toBroker \o Unpressed(msg) \in Seq(Quiet)
      /\ PublishSettings(device', persisted') \in Seq(Quiet)
  <2>1. /\ toBroker \in Seq(Quiet) /\ Unpressed(msg) \in Seq(Quiet)
        /\ PublishSettings(device', persisted') \in Seq(Quiet)
    BY <1>3, UnpressedQuiet, PublishQuiet DEF ButtonsOnly
  <2> QED BY <2>1, ConcatProperties
<1>8. /\ toBroker # <<>> \/ Unpressed(msg) # <<>> => toBroker \o Unpressed(msg) # <<>>
      /\ toBroker \o Unpressed(msg) # <<>> \/ PublishSettings(device', persisted') # <<>>
           => (toBroker \o Unpressed(msg)) \o PublishSettings(device', persisted') # <<>>
  BY <1>7, GrownIsNotEmpty
<1>9. (toBroker # <<>> \/ (msg.cmd # None /\ Unpressed(msg) # <<>>)) => toBroker' # <<>>
  BY <1>1, <1>8, Answered
<1>10. SUFFICES ASSUME toBroker = <<>>, toBroker' = <<>> PROVE Converges'
  BY <1>2, <1>9 DEF Converges
<1>11. /\ DOMAIN Valid(msg.cmd.set) = {s \in DOMAIN msg.cmd.set : msg.cmd.set[s] # Bad}
       /\ \A s \in DOMAIN Valid(msg.cmd.set) : Valid(msg.cmd.set)[s] = msg.cmd.set[s]
       /\ Valid(msg.cmd.set) \in Chosen
  BY <1>3, ValidIs
<1>12. CASE msg.cmd = None
  <2>1. ~IsPress(msg)
    BY <1>12, NoneIs DEF IsPress
  <2> QED BY <1>2, <1>6, <1>12, <2>1 DEF Converges
<1>13. CASE msg.cmd # None /\ ~registered
  <2>1. /\ pending' = Over(pending, msg.cmd.set)
        /\ partial' = ~(DOMAIN pending' \subseteq DOMAIN msg.cmd.set)
        /\ persisted' = persisted
    BY <1>1, <1>13, Answered DEF Keep
  <2>2. /\ DOMAIN pending' = DOMAIN pending \cup DOMAIN msg.cmd.set
        /\ \A s \in DOMAIN msg.cmd.set : pending'[s] = msg.cmd.set[s]
        /\ \A s \in DOMAIN pending \ DOMAIN msg.cmd.set : pending'[s] = pending[s]
    <3>1. pending \in Carried
      BY DEF TypeOK
    <3>2. LET kept == Over(pending, msg.cmd.set)
          IN  /\ DOMAIN kept = DOMAIN pending \cup DOMAIN msg.cmd.set
              /\ \A s \in DOMAIN msg.cmd.set : kept[s] = msg.cmd.set[s]
              /\ \A s \in DOMAIN pending \ DOMAIN msg.cmd.set : kept[s] = pending[s]
      BY <1>3, <3>1, OverIs
    <3> QED BY <2>1, <3>2
  <2>3. CASE IsPress(msg)
    <3>1. DOMAIN msg.cmd.set = {}
      BY <1>4, <2>3 DEF Readable
    <3>2. Awaited => Awaited'
      BY <1>2, <2>1, <2>2, <3>1 DEF Awaited
    <3> QED BY <1>2, <1>6, <1>10, <1>13, <2>1, <2>3, <3>2 DEF Converges
  <2>4. CASE ~IsPress(msg)
    <3>1. msg.cmd = retained /\ ~retained.press
      BY <1>3, <1>6, <1>9, <1>10, <1>13, <2>4, UnpressedIs, DeliveryIs DEF IsPress
    <3>2. Awaited'
      BY <1>2, <2>1, <2>2, <3>1 DEF Awaited
    <3> QED BY <1>2, <1>13, <3>1, <3>2 DEF Converges
  <2> QED BY <2>3, <2>4
<1>14. CASE msg.cmd # None /\ registered
  <2>1. /\ device' = Over(device, Valid(msg.cmd.set))
        /\ persisted' = persisted \cup DOMAIN Valid(msg.cmd.set)
    BY <1>1, <1>14, Answered DEF Apply
  <2>2. /\ \A s \in DOMAIN Valid(msg.cmd.set) : device'[s] = Valid(msg.cmd.set)[s]
        /\ \A s \in Names \ DOMAIN Valid(msg.cmd.set) : device'[s] = device[s]
    BY <1>11, <2>1, OverDevice DEF TypeOK
  <2>3. Holds(device', persisted', msg.cmd.set)
    <3> SUFFICES ASSUME ~Holds(device', persisted', msg.cmd.set) PROVE FALSE
      OBVIOUS
    <3>1. persisted' # {}
      BY DEF Holds
    <3>2. PublishSettings(device', persisted') # <<>>
      BY <1>3, <3>1, PublishIs
    <3>3. toBroker' = (toBroker \o Unpressed(msg)) \o PublishSettings(device', persisted')
      BY <1>1, <1>14, Answered
    <3> QED BY <1>8, <1>10, <3>2, <3>3
  <2>4. CASE IsPress(msg)
    <3>1. DOMAIN msg.cmd.set = {}
      BY <1>4, <2>4 DEF Readable
    <3>2. persisted' = persisted /\ \A s \in Names : device'[s] = device[s]
      BY <1>11, <2>1, <2>2, <3>1
    <3>3. Agrees => Agrees'
      BY <1>2, <3>2 DEF Agrees
    <3> QED BY <1>2, <1>6, <1>10, <1>14, <2>4, <3>2, <3>3 DEF Converges
  <2>5. CASE ~IsPress(msg)
    <3>1. msg.cmd = retained /\ ~retained.press
      BY <1>3, <1>6, <1>9, <1>10, <1>14, <2>5, UnpressedIs, DeliveryIs DEF IsPress
    <3>2. ASSUME NEW s \in persisted'
          PROVE  s \in DOMAIN retained.set /\ retained.set[s] = device'[s] /\ device'[s] # Bad
      BY <1>3, <2>3, <3>1, SettingsAssumption DEF Holds
    <3>3. Agrees'
      BY <1>2, <1>11, <2>1, <3>1, <3>2 DEF Agrees
    <3> QED BY <1>2, <1>14, <3>1, <3>3 DEF Converges
  <2> QED BY <2>4, <2>5
<1> QED BY <1>12, <1>13, <1>14

\* A device that registers takes what was kept for it; when the topic does
\* not carry all of that, it is published.
LEMMA RegisterConverges ==
    ASSUME TypeOK, Fresh, Converges, Register
    PROVE  Converges'
<1>1. /\ ~registered /\ registered' /\ persisted = {} /\ ~replayDue
      /\ device' = Over(device, Valid(pending))
      /\ persisted' = DOMAIN Valid(pending)
      /\ replayDue' = (DOMAIN pending # {} /\ partial /\ up)
      /\ UNCHANGED <<up, retained, toUs, toBroker>>
  BY DEF Register, Fresh, link
<1>2. /\ Valid(pending) \in Chosen
      /\ DOMAIN Valid(pending) = {s \in DOMAIN pending : pending[s] # Bad}
      /\ \A s \in DOMAIN Valid(pending) : Valid(pending)[s] = pending[s]
  BY ValidIs DEF TypeOK
<1>3. \A s \in DOMAIN Valid(pending) : device'[s] = pending[s]
  BY <1>1, <1>2, OverDevice DEF TypeOK
<1>4. ASSUME Awaited, up, ~(replayDue' /\ persisted' # {}) PROVE Agrees'
  <2>1. \A s \in DOMAIN retained.set : s \in DOMAIN pending /\ pending[s] = retained.set[s]
    BY <1>4 DEF Awaited
  <2>2. CASE persisted' = {}
    BY <1>1, <1>2, <2>1, <2>2 DEF Agrees
  <2>3. CASE persisted' # {}
    <3>1. DOMAIN pending \subseteq DOMAIN retained.set
      BY <1>1, <1>2, <1>4, <2>3 DEF Awaited
    <3> QED BY <1>1, <1>2, <1>3, <2>1, <3>1 DEF Agrees
  <2> QED BY <2>2, <2>3
<1> QED BY <1>1, <1>4 DEF Converges

\* The service and the topic come together whatever happens.
LEMMA ConvergesKept ==
    ASSUME TypeOK, ButtonsOnly, Fresh, Offline, LastRead, Converges, [Next]_vars
    PROVE  Converges'
<1>1. CASE Listen BY <1>1, ListenConverges
<1>2. CASE Register BY <1>2, RegisterConverges
<1>3. CASE ReplayPublish
  <2>1. PublishSettings(device, persisted) \in Seq(Quiet) /\ toBroker \in Seq(Quiet)
    BY PublishQuiet DEF TypeOK, ButtonsOnly
  <2>2. /\ UNCHANGED <<device, registered, pending, partial, persisted, up, retained, toUs>>
        /\ toBroker' = toBroker \o PublishSettings(device, persisted)
    BY <1>3 DEF ReplayPublish
  <2>3. toBroker # <<>> \/ persisted # {} => toBroker' # <<>>
    <3>1. \A t \in Seq(Quiet) : toBroker # <<>> \/ t # <<>> => toBroker \o t # <<>>
      BY <2>1, GrownIsNotEmpty
    <3>2. persisted # {} => PublishSettings(device, persisted) # <<>>
      BY PublishIs DEF TypeOK
    <3> QED BY <2>1, <2>2, <3>1, <3>2
  <2> QED BY <2>2, <2>3 DEF Converges, Agrees, Awaited
<1>4. CASE BrokerReceives
  <2>1. Head(toBroker) \in Quiet
    BY <1>4, HeadTailProperties DEF BrokerReceives, ButtonsOnly
  <2> QED BY <1>4, <2>1, ReceivedIsLast DEF BrokerReceives, Quiet, Converges
<1>5. CASE Connect
  BY <1>5, LatestOne DEF Connect, Converges
<1>6. CASE Drop \/ Restart
  BY <1>6 DEF Drop, Restart, Converges
<1>7. ASSUME NEW s \in Names, NEW v \in Values \cup {Bad}, HomeAssistantWrites(s, v)
      PROVE  Converges'
  BY <1>7, ReceivedIsLast, OnlyIs, MessageIs DEF HomeAssistantWrites, Converges
<1>8. ASSUME NEW s \in Names, NEW v \in Values, DashboardWrites(s, v)
      PROVE  Converges'
  <2>1. device' \in [Names -> Values] /\ persisted' \in SUBSET Names
    BY <1>8, TypesKept DEF Next, TypeOK
  <2>2. PublishSettings(device', persisted') \in Seq(Quiet) /\ toBroker \in Seq(Quiet)
    BY <2>1, PublishQuiet DEF ButtonsOnly
  <2>3. ASSUME up PROVE toBroker' # <<>>
    <3>1. persisted' # {} /\ toBroker' = toBroker \o PublishSettings(device', persisted')
      BY <1>8, <2>3 DEF DashboardWrites
    <3>2. \A t \in Seq(Quiet) : t # <<>> => toBroker \o t # <<>>
      BY <2>2, GrownIsNotEmpty
    <3>3. PublishSettings(device', persisted') # <<>>
      BY <2>1, <3>1, PublishIs
    <3> QED BY <2>2, <3>1, <3>2, <3>3
  <2> QED BY <1>8, <2>3 DEF DashboardWrites, Converges
<1>9. CASE ButtonPressed
  <2>1. /\ [cmd |-> Message(<<>>, TRUE), retained |-> FALSE] \in Delivery
        /\ toUs \in Seq(Delivery)
    BY NothingIs, MessageIs DEF TypeOK
  <2>2. Reading(toUs) => Reading(toUs')
    BY <1>9, <2>1, LatestAppended DEF ButtonPressed
  <2> QED BY <1>9, <2>2 DEF ButtonPressed, service, Converges, Agrees, Awaited
<1>10. CASE Cleared
  BY <1>10 DEF Cleared, Receive, Converges
<1>11. CASE UNCHANGED vars
  BY <1>11 DEF vars, service, link, Converges, Agrees, Awaited
<1> QED BY <1>1, <1>2, <1>3, <1>4, <1>5, <1>6, <1>7, <1>8, <1>9, <1>10, <1>11 DEF Next

-----------------------------------------------------------------------------
(* A write that nothing disturbed.                                          *)

\* What the write left set is set, or kept for a device that has not
\* registered.
InView(s) ==
    IF registered THEN s \in persisted /\ device[s] = due[s]
    ELSE s \in DOMAIN pending /\ pending[s] = due[s]

\* Only the topic says it, and the service reads it next, or when it connects.
OnTheWay(s) ==
    /\ toBroker = <<>>
    /\ ~replayDue
    /\ s \in DOMAIN retained.set
    /\ retained.set[s] = due[s]
    /\ up => toUs # <<>> /\ Head(toUs).cmd = retained

\* A message does not contradict what was written (d): a device that has
\* registered (reg) refuses what is not valid.
Says(set, d, reg) ==
    \A s \in DOMAIN d \cap DOMAIN set : set[s] = d[s] \/ (reg /\ set[s] = Bad)

Heard(d, reg) == {m \in Delivery : (m.retained => ~m.cmd.press) /\ Says(m.cmd.set, d, reg)}
Sent(d, reg) == {c \in Command : c # None /\ ~c.press /\ Says(c.set, d, reg)}

\* Every setting of the write is in view or on the way, and nothing that is
\* sent, retained or still to be read contradicts it.
Stands ==
    known => /\ ~up => toBroker = <<>>
             /\ ~retained.press
             /\ toUs \in Seq(Heard(due, registered))
             /\ toBroker \in Seq(Sent(due, registered))
             /\ toBroker = <<>> => Says(retained.set, due, registered)
             /\ toBroker = <<>> /\ retained = None => DOMAIN due = {}
             /\ \A s \in DOMAIN due : InView(s) \/ OnTheWay(s)

\* What the write left set is valid.
LEMMA DueIsValid ==
    ASSUME TypeOK
    PROVE  DOMAIN due \subseteq Names /\ \A s \in DOMAIN due : due[s] # Bad
<1>1. due \in Chosen
  BY DEF TypeOK, Chosen
<1> QED BY <1>1, ChosenIsCarried, SettingsAssumption

\* While nobody waits for anything, the settings held are the device's own,
\* or those kept for it, and the topic presses nothing.
LEMMA HeldStands ==
    ASSUME TypeOK, Converges, Idle
    PROVE  /\ Held \in Chosen
           /\ \A t \in DOMAIN Held : IF registered THEN t \in persisted /\ device[t] = Held[t]
                                     ELSE t \in DOMAIN pending /\ pending[t] = Held[t]
           /\ ~retained.press
<1>1. retained \in Command /\ retained.set \in Carried /\ pending \in Carried
  BY DEF TypeOK, Command
<1>2. Held \in Chosen
  BY <1>1, ValidIs DEF Held
<1>3. up /\ toBroker = <<>> /\ ~replayDue /\ ~Reading(toUs)
  BY EmptySeq DEF Idle, Reading
<1>4. retained = None \/ (~retained.press /\ IF registered THEN Agrees ELSE Awaited)
  BY <1>3 DEF Converges
<1>5. CASE registered
  <2>1. Held = Valid(retained.set)
    BY <1>5 DEF Held
  <2>2. DOMAIN Held = {t \in DOMAIN retained.set : retained.set[t] # Bad}
        /\ \A t \in DOMAIN Held : Held[t] = retained.set[t]
    BY <1>1, <2>1, ValidIs
  <2>3. retained = None => DOMAIN Held = {}
    BY <2>2, NoneIs
  <2>4. DOMAIN Held \subseteq Names
    BY <1>2, ChosenIsCarried
  <2> QED BY <1>2, <1>4, <1>5, <2>2, <2>3, <2>4, NoneIs DEF Agrees
<1>6. CASE ~registered
  <2>1. Held = Valid(pending)
    BY <1>6 DEF Held
  <2>2. DOMAIN Held = {t \in DOMAIN pending : pending[t] # Bad}
        /\ \A t \in DOMAIN Held : Held[t] = pending[t]
    BY <1>1, <2>1, ValidIs
  <2> QED BY <1>2, <1>4, <1>6, <2>2, NoneIs
<1> QED BY <1>5, <1>6

\* What a write is expected to leave set: its own value if that is valid, over
\* what was held before.
LEMMA Expected ==
    ASSUME TypeOK, Converges, NEW s \in Names, NEW v \in Values \cup {Bad},
           Expect(s, v), known'
    PROVE  /\ Idle /\ (registered \/ v # Bad)
           /\ v # Bad => s \in DOMAIN due' /\ due'[s] = v
           /\ \A t \in DOMAIN due' : (t = s /\ v # Bad) \/ (t \in DOMAIN Held /\ due'[t] = Held[t])
<1>1. Idle /\ (registered \/ v # Bad)
  BY DEF Expect
<1>2. Held \in Chosen /\ Held \in Carried
  BY <1>1, HeldStands, ChosenIsCarried
<1>3. /\ Only(s, v) \in Carried /\ DOMAIN Only(s, v) = {s} /\ Only(s, v)[s] = v
  BY OnlyIs
<1>4. /\ Valid(Only(s, v)) \in Carried
      /\ DOMAIN Valid(Only(s, v)) = {t \in DOMAIN Only(s, v) : Only(s, v)[t] # Bad}
      /\ \A t \in DOMAIN Valid(Only(s, v)) : Valid(Only(s, v))[t] = Only(s, v)[t]
  BY <1>3, ValidIs, ChosenIsCarried
<1>5. due' = Over(Held, Valid(Only(s, v)))
  BY DEF Expect
<1>6. /\ DOMAIN due' = DOMAIN Held \cup DOMAIN Valid(Only(s, v))
      /\ \A t \in DOMAIN Valid(Only(s, v)) : due'[t] = Valid(Only(s, v))[t]
      /\ \A t \in DOMAIN Held \ DOMAIN Valid(Only(s, v)) : due'[t] = Held[t]
  BY <1>2, <1>4, <1>5, OverIs
<1> QED BY <1>1, <1>3, <1>4, <1>6

\* A whole publish contradicts nothing when everything is in view.
LEMMA PublishSays ==
    ASSUME NEW dev \in [Names -> Values], NEW names \in SUBSET Names, NEW d, NEW reg \in BOOLEAN,
           \A s \in DOMAIN d : s \in names => dev[s] = d[s]
    PROVE  PublishSettings(dev, names) \in Seq(Sent(d, reg))
<1>1. CASE names = {}
  <2>1. PublishSettings(dev, names) = <<>>
    BY <1>1, PublishIs
  <2> QED BY <2>1, EmptySeq
<1>2. CASE names # {}
  <2>1. /\ Current(dev, names) \in Carried /\ DOMAIN Current(dev, names) = names
        /\ \A s \in names : Current(dev, names)[s] = dev[s]
        /\ PublishSettings(dev, names) \in Seq({Message(Current(dev, names), FALSE)})
        /\ Message(Current(dev, names), FALSE) # None
    BY <1>2, PublishIs
  <2>2. Says(Current(dev, names), d, reg)
    BY <2>1 DEF Says
  <2>3. Message(Current(dev, names), FALSE) \in Sent(d, reg)
    BY <2>1, <2>2, MessageIs DEF Sent
  <2> QED BY <2>1, <2>3, OneOf
<1> QED BY <1>1, <1>2

\* Reading a message that contradicts nothing brings what was on the way in
\* view.
LEMMA ListenStands ==
    ASSUME TypeOK, Stands, Listen
    PROVE  Stands'
<1> SUFFICES ASSUME known' PROVE Stands'
  BY DEF Stands
<1>1. PICK msg : msg = Head(toUs)
  OBVIOUS
<1>2. /\ toUs # <<>> /\ toUs' = Tail(toUs) /\ up
      /\ UNCHANGED <<registered, replayDue, up, retained, known, due>>
  BY DEF Listen, history
<1>3. /\ msg \in Delivery /\ msg.cmd.set \in Carried
      /\ device' \in [Names -> Values] /\ persisted' \in SUBSET Names
  BY <1>1, Answered
<1>4. /\ known /\ ~retained.press
      /\ toUs \in Seq(Heard(due, registered)) /\ toBroker \in Seq(Sent(due, registered))
      /\ toBroker = <<>> => Says(retained.set, due, registered)
      /\ toBroker = <<>> /\ retained = None => DOMAIN due = {}
      /\ \A s \in DOMAIN due : InView(s) \/ OnTheWay(s)
  BY <1>2 DEF Stands
<1>5. /\ msg.retained => ~msg.cmd.press
      /\ Says(msg.cmd.set, due, registered)
      /\ Tail(toUs) \in Seq(Heard(due, registered))
  <2>1. msg \in Heard(due, registered) /\ Tail(toUs) \in Seq(Heard(due, registered))
    BY <1>1, <1>2, <1>4, HeadTailProperties
  <2> QED BY <2>1 DEF Heard
<1>6. Unpressed(msg) = <<>> /\ toBroker \o Unpressed(msg) = toBroker
  BY <1>3, <1>4, <1>5, UnpressedIs, ConcatEmptySeq
<1>7. /\ DOMAIN Valid(msg.cmd.set) = {s \in DOMAIN msg.cmd.set : msg.cmd.set[s] # Bad}
      /\ \A s \in DOMAIN Valid(msg.cmd.set) : Valid(msg.cmd.set)[s] = msg.cmd.set[s]
      /\ Valid(msg.cmd.set) \in Chosen
  BY <1>3, ValidIs
<1>8. /\ DOMAIN due \subseteq Names
      /\ \A s \in DOMAIN due : due[s] # Bad
      /\ registered \in BOOLEAN
  BY DueIsValid DEF TypeOK
<1>9. \A s \in DOMAIN due : InView(s) \/ (s \in DOMAIN msg.cmd.set /\ msg.cmd.set[s] = due[s])
  BY <1>1, <1>2, <1>4 DEF OnTheWay
<1>10. \A s \in DOMAIN due : InView(s)'
  <2>1. CASE msg.cmd = None
    <3>1. UNCHANGED <<device, pending, persisted>>
      BY <1>1, <2>1, Answered
    <3>2. DOMAIN msg.cmd.set = {}
      BY <2>1, NoneIs
    <3> QED BY <1>2, <1>9, <3>1, <3>2 DEF InView
  <2>2. CASE msg.cmd # None /\ ~registered
    <3>1. pending' = Over(pending, msg.cmd.set)
      BY <1>1, <2>2, Answered DEF Keep
    <3>2. /\ DOMAIN pending' = DOMAIN pending \cup DOMAIN msg.cmd.set
          /\ \A s \in DOMAIN msg.cmd.set : pending'[s] = msg.cmd.set[s]
          /\ \A s \in DOMAIN pending \ DOMAIN msg.cmd.set : pending'[s] = pending[s]
      <4>1. pending \in Carried
        BY DEF TypeOK
      <4>2. LET kept == Over(pending, msg.cmd.set)
            IN  /\ DOMAIN kept = DOMAIN pending \cup DOMAIN msg.cmd.set
                /\ \A s \in DOMAIN msg.cmd.set : kept[s] = msg.cmd.set[s]
                /\ \A s \in DOMAIN pending \ DOMAIN msg.cmd.set : kept[s] = pending[s]
        BY <1>3, <4>1, OverIs
      <4> QED BY <3>1, <4>2
    <3> QED BY <1>2, <1>5, <1>9, <2>2, <3>2 DEF InView, Says
  <2>3. CASE msg.cmd # None /\ registered
    <3>1. /\ device' = Over(device, Valid(msg.cmd.set))
          /\ persisted' = persisted \cup DOMAIN Valid(msg.cmd.set)
      BY <1>1, <2>3, Answered DEF Apply
    <3>2. /\ \A s \in DOMAIN Valid(msg.cmd.set) : device'[s] = Valid(msg.cmd.set)[s]
          /\ \A s \in Names \ DOMAIN Valid(msg.cmd.set) : device'[s] = device[s]
      BY <1>7, <3>1, OverDevice DEF TypeOK
    <3>3. ASSUME NEW s \in DOMAIN due PROVE s \in persisted' /\ device'[s] = due[s]
      <4>1. CASE s \in DOMAIN Valid(msg.cmd.set)
        BY <1>5, <1>7, <3>1, <3>2, <4>1 DEF Says
      <4>2. CASE s \notin DOMAIN Valid(msg.cmd.set)
        <5>1. InView(s)
          BY <1>7, <1>8, <1>9, <4>2
        <5> QED BY <1>8, <2>3, <3>1, <3>2, <4>2, <5>1 DEF InView
      <4> QED BY <4>1, <4>2
    <3> QED BY <1>2, <2>3, <3>3 DEF InView
  <2> QED BY <2>1, <2>2, <2>3
<1>11. toBroker' \in Seq(Sent(due, registered)) /\ (toBroker # <<>> => toBroker' # <<>>)
  <2>1. CASE toBroker' = toBroker
    BY <1>4, <2>1
  <2>2. CASE registered /\ toBroker' = toBroker \o PublishSettings(device', persisted')
    <3>1. \A s \in DOMAIN due : s \in persisted' => device'[s] = due[s]
      BY <1>2, <1>10, <2>2 DEF InView
    <3>2. PublishSettings(device', persisted') \in Seq(Sent(due, registered))
      BY <1>3, <1>8, <3>1, PublishSays
    <3> QED BY <1>4, <2>2, <3>2, ConcatProperties, GrownIsNotEmpty
  <2> QED BY <1>1, <1>6, <2>1, <2>2, Answered
<1> QED BY <1>2, <1>4, <1>5, <1>10, <1>11 DEF Stands

\* A device that registers runs with what was kept for it.
LEMMA RegisterStands ==
    ASSUME TypeOK, Fresh, Stands, Register
    PROVE  Stands'
<1> SUFFICES ASSUME known' PROVE Stands'
  BY DEF Stands
<1>1. /\ ~registered /\ registered' /\ ~replayDue
      /\ device' = Over(device, Valid(pending))
      /\ persisted' = persisted \cup DOMAIN Valid(pending)
      /\ replayDue' => up /\ toUs = <<>>
      /\ known
      /\ UNCHANGED <<up, retained, toUs, toBroker, due>>
  BY DEF Register, Fresh, link
<1>2. /\ Valid(pending) \in Chosen
      /\ DOMAIN Valid(pending) = {s \in DOMAIN pending : pending[s] # Bad}
      /\ \A s \in DOMAIN Valid(pending) : Valid(pending)[s] = pending[s]
  BY ValidIs DEF TypeOK
<1>3. \A s \in DOMAIN Valid(pending) : device'[s] = pending[s]
  BY <1>1, <1>2, OverDevice DEF TypeOK
<1>4. /\ Heard(due, registered) \subseteq Heard(due, TRUE)
      /\ Sent(due, registered) \subseteq Sent(due, TRUE)
      /\ Says(retained.set, due, registered) => Says(retained.set, due, TRUE)
  BY DEF Heard, Sent, Says
<1>5. toUs \in Seq(Heard(due, TRUE)) /\ toBroker \in Seq(Sent(due, TRUE))
  <2>1. toUs \in Seq(Heard(due, registered)) /\ toBroker \in Seq(Sent(due, registered))
    BY <1>1 DEF Stands
  <2> QED BY <1>4, <2>1, SeqMonotonic
<1>6. registered' = TRUE
  BY <1>1, TypesKept DEF Next, TypeOK
<1>7. ASSUME NEW s \in DOMAIN due PROVE InView(s)' \/ OnTheWay(s)'
  <2>1. CASE InView(s)
    <3>1. s \in DOMAIN Valid(pending) /\ pending[s] = due[s]
      BY <1>1, <1>2, <2>1, DueIsValid DEF InView
    <3> QED BY <1>1, <1>3, <3>1 DEF InView
  <2>2. CASE OnTheWay(s)
    BY <1>1, <2>2 DEF OnTheWay
  <2> QED BY <1>1, <2>1, <2>2 DEF Stands
<1> QED BY <1>1, <1>4, <1>5, <1>6, <1>7 DEF Stands

\* What the broker receives was published with everything in view.
LEMMA BrokerStands ==
    ASSUME TypeOK, Stands, BrokerReceives
    PROVE  Stands'
<1> SUFFICES ASSUME known' PROVE Stands'
  BY DEF Stands
<1> DEFINE cmd == Head(toBroker)
           m == [cmd |-> cmd, retained |-> FALSE]
<1>1. /\ toBroker # <<>> /\ toBroker' = Tail(toBroker) /\ Receive(cmd) /\ known
      /\ UNCHANGED <<service, up, due>>
  BY DEF BrokerReceives, history
<1>2. /\ up /\ ~retained.press
      /\ toUs \in Seq(Heard(due, registered)) /\ toBroker \in Seq(Sent(due, registered))
      /\ \A s \in DOMAIN due : InView(s)
  BY <1>1 DEF Stands, OnTheWay
<1>3. cmd \in Sent(due, registered) /\ Tail(toBroker) \in Seq(Sent(due, registered))
  BY <1>1, <1>2, HeadTailProperties
<1>4. m \in Heard(due, registered)
  BY <1>3 DEF Sent, Heard, Delivery
<1>5. Append(toUs, m) \in Seq(Heard(due, registered))
  BY <1>2, <1>4, AppendProperties
<1>6. retained' = cmd /\ toUs' = Append(toUs, m)
  BY <1>1, <1>2 DEF Receive
<1>7. cmd # None /\ ~cmd.press /\ Says(cmd.set, due, registered)
  BY <1>3 DEF Sent
<1>8. \A s \in DOMAIN due : InView(s)'
  BY <1>1, <1>2 DEF InView, service
<1>9. registered' = registered /\ due' = due /\ up' = up /\ toBroker' \in Seq(Sent(due, registered))
  BY <1>1, <1>3 DEF service
<1> HIDE DEF cmd, m
<1> QED BY <1>2, <1>5, <1>6, <1>7, <1>8, <1>9 DEF Stands

\* A connection reads the topic first.
LEMMA ConnectStands ==
    ASSUME TypeOK, Stands, Connect
    PROVE  Stands'
<1> SUFFICES ASSUME known' PROVE Stands'
  BY DEF Stands
<1> DEFINE m == [cmd |-> retained, retained |-> TRUE]
<1>1. /\ ~up /\ up' /\ known /\ toBroker' = <<>>
      /\ toUs' = IF retained = None THEN <<>> ELSE <<m>>
      /\ UNCHANGED <<service, retained, due>>
  BY DEF Connect, history
<1>2. /\ toBroker = <<>> /\ ~retained.press /\ Says(retained.set, due, registered)
      /\ retained = None => DOMAIN due = {}
      /\ \A s \in DOMAIN due : InView(s) \/ OnTheWay(s)
  BY <1>1 DEF Stands
<1>3. m \in Heard(due, registered)
  BY <1>2 DEF Heard, Delivery, TypeOK
<1>4. <<m>> \in Seq(Heard(due, registered)) /\ Head(<<m>>) = m /\ <<m>> # <<>>
  BY <1>3
<1>5. toUs' \in Seq(Heard(due, registered)) /\ toBroker' \in Seq(Sent(due, registered))
  BY <1>1, <1>4, EmptySeq
<1>6. ASSUME NEW s \in DOMAIN due PROVE InView(s)' \/ OnTheWay(s)'
  <2>1. CASE InView(s)
    BY <1>1, <2>1 DEF InView, service
  <2>2. CASE OnTheWay(s)
    <3>1. toUs' # <<>> /\ Head(toUs').cmd = retained
      BY <1>1, <1>2, <1>4
    <3> QED BY <1>1, <2>2, <3>1 DEF OnTheWay, service
  <2> QED BY <1>2, <2>1, <2>2
<1>7. registered' = registered /\ due' = due /\ retained' = retained
  BY <1>1 DEF service
<1> QED BY <1>1, <1>2, <1>5, <1>6, <1>7 DEF Stands

\* A broken link takes nothing the topic or the service does not have.
LEMMA DropStands ==
    ASSUME TypeOK, Stands, Drop
    PROVE  Stands'
<1> SUFFICES ASSUME known' PROVE Stands'
  BY DEF Stands
<1>1. /\ known /\ toBroker = <<>> /\ toBroker' = toBroker /\ ~up' /\ toUs' = <<>> /\ ~replayDue'
      /\ UNCHANGED <<device, registered, pending, persisted, retained, due>>
  BY DEF Drop, TypeOK
<1>2. toUs' \in Seq(Heard(due, registered))
  BY <1>1, EmptySeq
<1>3. ASSUME NEW s \in DOMAIN due PROVE InView(s)' \/ OnTheWay(s)'
  <2>1. CASE InView(s)
    BY <1>1, <2>1 DEF InView
  <2>2. CASE OnTheWay(s)
    BY <1>1, <2>2 DEF OnTheWay
  <2> QED BY <1>1, <2>1, <2>2 DEF Stands
<1> QED BY <1>1, <1>2, <1>3 DEF Stands

\* A settled service has everything on the topic when it restarts.
LEMMA RestartStands ==
    ASSUME TypeOK, Converges, Stands, Restart
    PROVE  Stands'
<1> SUFFICES ASSUME known' PROVE Stands'
  BY DEF Stands
<1>1. /\ known /\ up /\ toUs = <<>> /\ toBroker = <<>> /\ ~replayDue /\ registered
      /\ ~up' /\ toUs' = <<>> /\ toBroker' = <<>> /\ ~replayDue'
      /\ UNCHANGED <<retained, due>>
  BY DEF Restart, Settled, Idle
<1>2. registered' = FALSE
  BY DEF Restart
<1>3. ~retained.press /\ (retained = None => DOMAIN due = {})
      /\ \A s \in DOMAIN due : InView(s)
  BY <1>1 DEF Stands, OnTheWay
<1>4. retained = None \/ Agrees
  BY <1>1, EmptySeq DEF Converges, Reading
<1>5. \A s \in DOMAIN due : s \in DOMAIN retained.set /\ retained.set[s] = due[s]
  <2>1. \A s \in DOMAIN due : s \in persisted /\ device[s] = due[s] /\ s \in Names
    BY <1>1, <1>3, DueIsValid DEF InView
  <2> QED BY <1>3, <1>4, <2>1 DEF Agrees
<1>6. \A s \in DOMAIN due : OnTheWay(s)'
  BY <1>1, <1>5 DEF OnTheWay
<1>7. Says(retained.set, due, FALSE)
  BY <1>5 DEF Says
<1>8. toUs' \in Seq(Heard(due, FALSE)) /\ toBroker' \in Seq(Sent(due, FALSE))
  BY <1>1, EmptySeq
<1> QED BY <1>1, <1>2, <1>3, <1>6, <1>7, <1>8 DEF Stands

\* Home Assistant writes one setting while nothing is under way: what stood is
\* in view, and the topic says the new one.
LEMMA HomeAssistantStands ==
    ASSUME TypeOK, Converges, NEW s \in Names, NEW v \in Values \cup {Bad},
           HomeAssistantWrites(s, v)
    PROVE  Stands'
<1> SUFFICES ASSUME known' PROVE Stands'
  BY DEF Stands
<1> DEFINE cmd == Message(Only(s, v), FALSE)
           m == [cmd |-> cmd, retained |-> FALSE]
<1>1. /\ Idle /\ (registered \/ v # Bad)
      /\ v # Bad => s \in DOMAIN due' /\ due'[s] = v
      /\ \A t \in DOMAIN due' : (t = s /\ v # Bad) \/ (t \in DOMAIN Held /\ due'[t] = Held[t])
  BY Expected DEF HomeAssistantWrites
<1>2. /\ Only(s, v) \in Carried /\ DOMAIN Only(s, v) = {s} /\ Only(s, v)[s] = v
  BY OnlyIs
<1>3. cmd \in Command /\ cmd.set = Only(s, v) /\ ~cmd.press /\ m \in Delivery /\ cmd # None
  BY <1>2, MessageIs
<1>4. /\ retained' = cmd /\ toUs' = <<m>> /\ toBroker' = <<>> /\ ~replayDue' /\ up'
      /\ UNCHANGED <<device, registered, pending, persisted>>
  <2>1. up /\ toUs = <<>> /\ toBroker = <<>> /\ ~replayDue
    BY <1>1 DEF Idle
  <2>2. Append(<<>>, m) = <<m>>
    OBVIOUS
  <2> QED BY <2>1, <2>2 DEF HomeAssistantWrites, Receive, service
<1>5. Says(Only(s, v), due', registered)
  BY <1>1, <1>2 DEF Says
<1>6. m \in Heard(due', registered)
  BY <1>3, <1>5 DEF Heard
<1>7. <<m>> \in Seq(Heard(due', registered)) /\ Head(<<m>>) = m /\ <<m>> # <<>>
  BY <1>6
<1>8. m.cmd = cmd
  OBVIOUS
<1> HIDE DEF cmd, m
<1>9. toUs' \in Seq(Heard(due', registered)) /\ toBroker' \in Seq(Sent(due', registered))
  BY <1>4, <1>7, EmptySeq
<1>10. ASSUME NEW t \in DOMAIN due' PROVE InView(t)' \/ OnTheWay(t)'
  <2>1. CASE t = s /\ v # Bad
    <3>1. retained'.set = Only(s, v) /\ Head(toUs').cmd = retained' /\ toUs' # <<>>
      BY <1>3, <1>4, <1>7, <1>8
    <3> QED BY <1>1, <1>2, <1>4, <2>1, <3>1 DEF OnTheWay
  <2>2. CASE t \in DOMAIN Held /\ due'[t] = Held[t]
    <3>1. IF registered THEN t \in persisted /\ device[t] = Held[t]
          ELSE t \in DOMAIN pending /\ pending[t] = Held[t]
      BY <1>1, <2>2, HeldStands
    <3> QED BY <1>4, <2>2, <3>1 DEF InView
  <2> QED BY <1>1, <2>1, <2>2
<1> QED BY <1>3, <1>4, <1>5, <1>9, <1>10 DEF Stands

\* The dashboard writes one setting while nothing is under way: everything is
\* in view, and is published whole.
LEMMA DashboardStands ==
    ASSUME TypeOK, Converges, NEW s \in Names, NEW v \in Values, DashboardWrites(s, v)
    PROVE  Stands'
<1> SUFFICES ASSUME known' PROVE Stands'
  BY DEF Stands
<1>1. /\ Idle /\ v # Bad
      /\ s \in DOMAIN due' /\ due'[s] = v
      /\ \A t \in DOMAIN due' : t = s \/ (t \in DOMAIN Held /\ due'[t] = Held[t])
  BY Expected, SettingsAssumption DEF DashboardWrites
<1>2. up /\ toUs = <<>> /\ toBroker = <<>>
  BY <1>1 DEF Idle
<1>3. /\ registered /\ registered' = TRUE /\ up' /\ toUs' = <<>>
      /\ device' = [device EXCEPT ![s] = v]
      /\ persisted' = persisted \cup {s}
      /\ toBroker' = toBroker \o PublishSettings(device', persisted')
      /\ retained' = retained
  BY <1>2 DEF DashboardWrites, TypeOK
<1>4. device' \in [Names -> Values] /\ persisted' \in SUBSET Names
  BY <1>3 DEF TypeOK
<1>5. \A t \in DOMAIN due' : t \in persisted' /\ device'[t] = due'[t]
  <2>1. \A t \in DOMAIN Held : t \in persisted /\ device[t] = Held[t]
    BY <1>1, <1>3, HeldStands
  <2> QED BY <1>1, <1>3, <2>1 DEF TypeOK
<1>6. /\ PublishSettings(device', persisted') \in Seq(Sent(due', TRUE))
      /\ PublishSettings(device', persisted') # <<>>
  <2>1. persisted' # {}
    BY <1>3
  <2> QED BY <1>4, <1>5, <2>1, PublishSays, PublishIs
<1>7. toBroker' = PublishSettings(device', persisted')
  BY <1>2, <1>3, <1>6, ConcatEmptySeq
<1>8. ~retained.press
  BY <1>1, HeldStands
<1>9. \A t \in DOMAIN due' : InView(t)'
  BY <1>3, <1>5 DEF InView
<1>10. toUs' \in Seq(Heard(due', TRUE))
  BY <1>3, EmptySeq
<1> QED BY <1>3, <1>6, <1>7, <1>8, <1>9, <1>10 DEF Stands

\* A press contradicts nothing, and is read behind what is on the way.
LEMMA ButtonStands ==
    ASSUME TypeOK, Stands, ButtonPressed
    PROVE  Stands'
<1> SUFFICES ASSUME known' PROVE Stands'
  BY DEF Stands
<1> DEFINE m == [cmd |-> Message(<<>>, TRUE), retained |-> FALSE]
<1>1. /\ known /\ toUs' = IF up THEN Append(toUs, m) ELSE toUs
      /\ UNCHANGED <<service, up, retained, toBroker, due>>
  BY DEF ButtonPressed, TypeOK
<1>2. m \in Heard(due, registered)
  <2>1. m \in Delivery /\ m.cmd.set = <<>>
    BY NothingIs, MessageIs
  <2> QED BY <2>1, NothingIs DEF Heard, Says
<1> HIDE DEF m
<1>3. toUs \in Seq(Heard(due, registered))
  BY <1>1 DEF Stands
<1>4. /\ Append(toUs, m) \in Seq(Heard(due, registered)) /\ Append(toUs, m) # <<>>
      /\ toUs # <<>> => Head(Append(toUs, m)) = Head(toUs)
  BY <1>2, <1>3, AppendProperties, HeadTailAppend
<1>5. ASSUME NEW s \in DOMAIN due PROVE InView(s)' \/ OnTheWay(s)'
  <2>1. CASE InView(s)
    BY <1>1, <2>1 DEF InView, service
  <2>2. CASE OnTheWay(s)
    BY <1>1, <1>4, <2>2 DEF OnTheWay, service
  <2> QED BY <1>1, <2>1, <2>2 DEF Stands
<1>6. toUs' \in Seq(Heard(due, registered)) /\ registered' = registered
  BY <1>1, <1>3, <1>4 DEF service
<1> QED BY <1>1, <1>5, <1>6 DEF Stands

\* What an undisturbed write left set stands whatever happens.
LEMMA StandsKept ==
    ASSUME TypeOK, Fresh, Offline, Converges, Stands, [Next]_vars
    PROVE  Stands'
<1>1. CASE Listen BY <1>1, ListenStands
<1>2. CASE Register BY <1>2, RegisterStands
<1>3. CASE ReplayPublish
  <2> SUFFICES ASSUME known' PROVE Stands'
    BY DEF Stands
  <2>1. /\ replayDue /\ registered /\ known
        /\ toBroker' = toBroker \o PublishSettings(device, persisted)
        /\ UNCHANGED <<device, registered, pending, persisted, up, retained, toUs, due>>
    BY <1>3 DEF ReplayPublish, Fresh, history
  <2>2. /\ toBroker \in Seq(Sent(due, registered))
        /\ \A s \in DOMAIN due : InView(s)
    BY <2>1 DEF Stands, OnTheWay
  <2>3. PublishSettings(device, persisted) \in Seq(Sent(due, registered))
    <3>1. \A s \in DOMAIN due : s \in persisted => device[s] = due[s]
      BY <2>1, <2>2 DEF InView
    <3> QED BY <3>1, PublishSays DEF TypeOK
  <2>4. toBroker' \in Seq(Sent(due, registered)) /\ (toBroker # <<>> => toBroker' # <<>>)
    BY <2>1, <2>2, <2>3, ConcatProperties, GrownIsNotEmpty
  <2>5. \A s \in DOMAIN due : InView(s)'
    BY <2>1, <2>2 DEF InView
  <2>6. ~up => toBroker' = <<>>
    BY <2>1 DEF Offline
  <2> QED BY <2>1, <2>4, <2>5, <2>6 DEF Stands
<1>4. CASE BrokerReceives BY <1>4, BrokerStands
<1>5. CASE Connect BY <1>5, ConnectStands
<1>6. CASE Drop BY <1>6, DropStands
<1>7. CASE Restart BY <1>7, RestartStands
<1>8. ASSUME NEW s \in Names, NEW v \in Values \cup {Bad}, HomeAssistantWrites(s, v)
      PROVE  Stands'
  BY <1>8, HomeAssistantStands
<1>9. ASSUME NEW s \in Names, NEW v \in Values, DashboardWrites(s, v)
      PROVE  Stands'
  BY <1>9, DashboardStands
<1>10. CASE ButtonPressed BY <1>10, ButtonStands
<1>11. CASE Cleared
  BY <1>11 DEF Cleared, Stands
<1>12. CASE UNCHANGED vars
  BY <1>12 DEF vars, service, link, history, Stands, InView, OnTheWay
<1> QED BY <1>1, <1>2, <1>3, <1>4, <1>5, <1>6, <1>7, <1>8, <1>9, <1>10, <1>11, <1>12 DEF Next

-----------------------------------------------------------------------------
(* Theorems.                                                                *)

SettingsInv ==
    /\ TypeOK /\ ButtonsOnly /\ PressesCount
    /\ Fresh /\ Offline /\ LastRead /\ Converges
    /\ Stands

\* The invariant holds of every behaviour.
LEMMA SettingsHold == Spec => []SettingsInv
<1>1. Init => SettingsInv
  <2> SUFFICES ASSUME Init PROVE SettingsInv
    OBVIOUS
  <2>1. TypeOK
    BY TypesAtStart
  <2>2. ButtonsOnly
    BY EmptySeq DEF Init, ButtonsOnly
  <2>3. PressesCount
    <3>1. PressesIn(toUs) = {}
      BY EmptySeq DEF Init, PressesIn
    <3>2. Cardinality(PressesIn(toUs)) = 0
      BY <3>1, FS_EmptySet
    <3>3. rotations = 0 /\ presses = 0
      BY DEF Init
    <3> QED BY <3>2, <3>3 DEF PressesCount
  <2>4. Fresh /\ Offline /\ Converges /\ Stands
    BY DEF Init, Fresh, Offline, Converges, Stands
  <2>5. LastRead
    BY LatestOne DEF Init, LastRead
  <2> QED BY <2>1, <2>2, <2>3, <2>4, <2>5 DEF SettingsInv
<1>2. SettingsInv /\ [Next]_vars => SettingsInv'
  BY TypesKept, ButtonsKept, PressesKept, LinkKept, LastReadKept, ConvergesKept, StandsKept
     DEF SettingsInv
<1> QED BY <1>1, <1>2, PTL DEF Spec

\* Every variable keeps its type: the device always runs with one value of
\* each setting, whatever the broker hands out.
THEOREM TypeCorrect == Spec => []TypeOK
<1>1. SettingsInv => TypeOK BY DEF SettingsInv
<1> QED BY <1>1, SettingsHold, PTL

\* The rotation is never forced more often than the button was pressed, for
\* any number of reconnects, restarts and echoes (_handle_device_command).
THEOREM PressesAreReal == Spec => []PressedOnce
<1>1. SettingsInv => PressedOnce
  <2> SUFFICES ASSUME SettingsInv PROVE PressedOnce
    OBVIOUS
  <2>1. toUs \in Seq(Delivery) /\ rotations \in Nat /\ presses \in Nat
    BY DEF SettingsInv, TypeOK
  <2>2. Cardinality(PressesIn(toUs)) \in Nat
    BY <2>1, PressesFinite
  <2> QED BY <2>1, <2>2 DEF SettingsInv, PressesCount, PressedOnce
<1> QED BY <1>1, SettingsHold, PTL

\* Once nothing is under way, a topic that is not cleared carries exactly the
\* persisted settings as the device runs with them, and no press
\* (_handle_device_command, _replay_device_commands).
THEOREM SettlesInAgreement == Spec => []SettledAgrees
<1>1. SettingsInv => SettledAgrees
  <2> SUFFICES ASSUME SettingsInv, Settled, retained # None
               PROVE  ~retained.press /\ Valid(retained.set) = Current(device, persisted)
    BY DEF SettledAgrees
  <2>1. up /\ toUs = <<>> /\ toBroker = <<>> /\ ~replayDue /\ registered
    BY DEF Settled, Idle
  <2>2. ~retained.press /\ Agrees
    BY <2>1, EmptySeq DEF SettingsInv, Converges, Reading
  <2>3. retained.set \in Carried /\ device \in [Names -> Values] /\ persisted \subseteq Names
    BY DEF SettingsInv, TypeOK, Command
  <2>4. DOMAIN retained.set \subseteq Names
    BY <2>3, CarriesNames
  <2>5. Valid(retained.set) = [s \in {t \in DOMAIN retained.set : retained.set[t] # Bad}
                                 |-> retained.set[s]]
    BY DEF Valid, Restrict
  <2>6. {t \in DOMAIN retained.set : retained.set[t] # Bad} = persisted
    BY <2>2, <2>3, <2>4 DEF Agrees
  <2>7. \A s \in persisted : retained.set[s] = device[s]
    BY <2>2, <2>3 DEF Agrees
  <2> QED BY <2>2, <2>5, <2>6, <2>7 DEF Current
<1> QED BY <1>1, SettingsHold, PTL

\* A setting written while nothing else was under way, and every setting that
\* stood before it, is what the device runs with once everything has settled,
\* across reconnects, late registration and restarts of a settled service.
THEOREM UndisturbedWriteStands == Spec => []WriteStands
<1>1. SettingsInv => WriteStands
  <2> SUFFICES ASSUME SettingsInv, Settled, known, NEW s \in DOMAIN due
               PROVE  device[s] = due[s]
    BY DEF WriteStands
  <2>1. up /\ toUs = <<>> /\ registered
    BY DEF Settled, Idle
  <2> QED BY <2>1 DEF SettingsInv, Stands, OnTheWay, InView
<1> QED BY <1>1, SettingsHold, PTL

=============================================================================
