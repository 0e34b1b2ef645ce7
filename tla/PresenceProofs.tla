-------------------------- MODULE PresenceProofs --------------------------
(***************************************************************************)
(* For any batteries, queue and faults: what the broker will hold when all *)
(* that was sent has arrived is what the service remembers having said;    *)
(* and what it remembers, with the events still queued, is what the        *)
(* emulator knows.                                                         *)
(***************************************************************************)
EXTENDS Presence, FiniteSetTheorems, SequenceTheorems, WellFoundedInduction, TLAPS

(* Messages and retained values                                              *)

Values == {"none", "online", "offline"}
Payloads == {"none", "retiring", "current"}
Held ==
    [status: Values,
     avail: [Batteries -> Values],
     count: 0..Cardinality(Batteries),
     discovery: [Batteries -> Payloads]]

SameTopic(m, n) ==
    /\ m.topic = n.topic
    /\ m.topic \in {"avail", "discovery"} => m.b = n.b

\* The message changes nothing any more.
Shows(held, m) == Retain(held, m) = held

\* Once all of sent has arrived, the broker holds m.
LastWord(held, sent, m) ==
    \/ /\ Shows(held, m)
       /\ \A i \in 1 .. Len(sent) : ~SameTopic(sent[i], m)
    \/ \E i \in 1 .. Len(sent) :
         /\ sent[i] = m
         /\ \A j \in i + 1 .. Len(sent) : ~SameTopic(sent[j], m)

\* The kinds of messages there are.
LEMMA Kinds ==
    ASSUME NEW m \in Message
    PROVE  \/ \E v \in {"online", "offline"} : m = Status(v)
           \/ \E b \in Batteries, v \in {"online", "offline"} : m = Avail(b, v)
           \/ \E n \in 0..Cardinality(Batteries) : m = Bridge(n)
           \/ \E b \in Batteries, v \in {"retiring", "current"} : m = Discovery(b, v)
BY DEF Message

\* The messages the service sends are messages.
LEMMA Sendable ==
    /\ Status("online") \in Message /\ Status("offline") \in Message
    /\ \A b \in Batteries : /\ Avail(b, "online") \in Message
                            /\ Avail(b, "offline") \in Message
                            /\ Discovery(b, "retiring") \in Message
                            /\ Discovery(b, "current") \in Message
    /\ \A S \in SUBSET Batteries : /\ Cardinality(S) \in 0..Cardinality(Batteries)
                                   /\ Bridge(Cardinality(S)) \in Message
<1>1. \A S \in SUBSET Batteries : Cardinality(S) \in 0..Cardinality(Batteries)
  BY PresenceAssumption, FS_Subset, FS_CardinalityType
<1> QED BY <1>1 DEF Message

\* A message replaces the value of its topic and no other.
LEMMA RetainTopics ==
    ASSUME NEW held \in Held, NEW m \in Message
    PROVE  /\ Retain(held, m) \in Held
           /\ Retain(held, m).status = IF m.topic = "status" THEN m.value ELSE held.status
           /\ Retain(held, m).count = IF m.topic = "bridge" THEN m.count ELSE held.count
           /\ \A b \in Batteries : Retain(held, m).avail[b] =
                IF m.topic = "avail" /\ m.b = b THEN m.value ELSE held.avail[b]
           /\ \A b \in Batteries : Retain(held, m).discovery[b] =
                IF m.topic = "discovery" /\ m.b = b THEN m.value ELSE held.discovery[b]
<1>1. CASE \E v \in {"online", "offline"} : m = Status(v)
  BY <1>1 DEF Status, Retain, Held, Values
<1>2. CASE \E b \in Batteries, v \in {"online", "offline"} : m = Avail(b, v)
  BY <1>2 DEF Avail, Retain, Held, Values
<1>3. CASE \E n \in 0..Cardinality(Batteries) : m = Bridge(n)
  BY <1>3 DEF Bridge, Retain, Held
<1>4. CASE \E b \in Batteries, v \in {"retiring", "current"} : m = Discovery(b, v)
  BY <1>4 DEF Discovery, Retain, Held, Payloads
<1> QED BY <1>1, <1>2, <1>3, <1>4, Kinds

\* What it means that the broker shows a message.
LEMMA ShowsIsHolds ==
    ASSUME NEW held \in Held
    PROVE  /\ \A v \in {"online", "offline"} :
                Shows(held, Status(v)) <=> held.status = v
           /\ \A b \in Batteries, v \in {"online", "offline"} :
                Shows(held, Avail(b, v)) <=> held.avail[b] = v
           /\ \A n \in 0..Cardinality(Batteries) :
                Shows(held, Bridge(n)) <=> held.count = n
           /\ \A b \in Batteries, v \in {"retiring", "current"} :
                Shows(held, Discovery(b, v)) <=> held.discovery[b] = v
<1>1. ASSUME NEW v \in {"online", "offline"}
      PROVE  Shows(held, Status(v)) <=> held.status = v
  BY DEF Status, Retain, Held, Shows
<1>2. ASSUME NEW b \in Batteries, NEW v \in {"online", "offline"}
      PROVE  Shows(held, Avail(b, v)) <=> held.avail[b] = v
  <2>1. Retain(held, Avail(b, v)) = [held EXCEPT !.avail = [held.avail EXCEPT ![b] = v]]
    BY DEF Retain, Avail, Held
  <2>2. [held.avail EXCEPT ![b] = v] = held.avail <=> held.avail[b] = v
    BY DEF Held
  <2> QED BY <2>1, <2>2 DEF Shows, Held
<1>3. ASSUME NEW n \in 0..Cardinality(Batteries)
      PROVE  Shows(held, Bridge(n)) <=> held.count = n
  BY DEF Bridge, Retain, Held, Shows
<1>4. ASSUME NEW b \in Batteries, NEW v \in {"retiring", "current"}
      PROVE  Shows(held, Discovery(b, v)) <=> held.discovery[b] = v
  <2>1. Retain(held, Discovery(b, v))
            = [held EXCEPT !.discovery = [held.discovery EXCEPT ![b] = v]]
    BY DEF Retain, Discovery, Held
  <2>2. [held.discovery EXCEPT ![b] = v] = held.discovery <=> held.discovery[b] = v
    BY DEF Held
  <2> QED BY <2>1, <2>2 DEF Shows, Held
<1> QED BY <1>1, <1>2, <1>3, <1>4

\* A message that arrives is shown, and the ones of other topics still are.
LEMMA ArrivesAndStays ==
    ASSUME NEW held \in Held, NEW m \in Message, NEW n \in Message
    PROVE  /\ Shows(Retain(held, m), m)
           /\ Shows(held, m) /\ ~SameTopic(n, m) => Shows(Retain(held, n), m)
<1>1. CASE \E v \in {"online", "offline"} : m = Status(v)
  BY <1>1, RetainTopics, ShowsIsHolds DEF Status, SameTopic
<1>2. CASE \E b \in Batteries, v \in {"online", "offline"} : m = Avail(b, v)
  <2>1. PICK b \in Batteries, v \in {"online", "offline"} : m = Avail(b, v)
    BY <1>2
  <2>2. m.topic = "avail" /\ m.b = b /\ m.value = v
    BY <2>1 DEF Avail
  <2>3. /\ Retain(held, m) \in Held /\ Retain(held, m).avail[b] = v
        /\ Retain(held, n) \in Held
        /\ ~SameTopic(n, m) => Retain(held, n).avail[b] = held.avail[b]
    BY <2>2, RetainTopics DEF SameTopic
  <2> QED BY <2>1, <2>3, ShowsIsHolds
<1>3. CASE \E c \in 0..Cardinality(Batteries) : m = Bridge(c)
  BY <1>3, RetainTopics, ShowsIsHolds DEF Bridge, SameTopic
<1>4. CASE \E b \in Batteries, v \in {"retiring", "current"} : m = Discovery(b, v)
  <2>1. PICK b \in Batteries, v \in {"retiring", "current"} : m = Discovery(b, v)
    BY <1>4
  <2>2. m.topic = "discovery" /\ m.b = b /\ m.value = v
    BY <2>1 DEF Discovery
  <2>3. /\ Retain(held, m) \in Held /\ Retain(held, m).discovery[b] = v
        /\ Retain(held, n) \in Held
        /\ ~SameTopic(n, m) => Retain(held, n).discovery[b] = held.discovery[b]
    BY <2>2, RetainTopics DEF SameTopic
  <2> QED BY <2>1, <2>3, ShowsIsHolds
<1> QED BY <1>1, <1>2, <1>3, <1>4, Kinds

(* The last word                                                             *)

\* Nothing that is sent is about m's topic.
Silent(sent, m) == \A i \in 1 .. Len(sent) : ~SameTopic(sent[i], m)

\* The last word stays the last word when the oldest message arrives.
LEMMA LastWordArrives ==
    ASSUME NEW held \in Held, NEW sent \in Seq(Message), sent # <<>>,
           NEW m \in Message, LastWord(held, sent, m)
    PROVE  LastWord(Retain(held, Head(sent)), Tail(sent), m)
<1> DEFINE now == Retain(held, Head(sent))
           rest == Tail(sent)
<1>1. /\ Head(sent) \in Message /\ Head(sent) = sent[1] /\ Len(sent) \in Nat /\ 1 <= Len(sent)
      /\ Len(rest) = Len(sent) - 1
      /\ \A i \in 1 .. Len(rest) : rest[i] = sent[i + 1]
  BY HeadTailProperties, EmptySeq
<1>2. CASE Shows(held, m) /\ Silent(sent, m)
  <2>1. Shows(now, m)
    BY <1>1, <1>2, ArrivesAndStays DEF Silent
  <2>2. Silent(rest, m)
    BY <1>1, <1>2 DEF Silent
  <2> QED BY <2>1, <2>2 DEF LastWord, Silent
<1>3. CASE \E i \in 1 .. Len(sent) :
             sent[i] = m /\ \A j \in i + 1 .. Len(sent) : ~SameTopic(sent[j], m)
  <2>1. PICK i \in 1 .. Len(sent) :
          sent[i] = m /\ \A j \in i + 1 .. Len(sent) : ~SameTopic(sent[j], m)
    BY <1>3
  <2>2. ASSUME NEW j \in i .. Len(rest) PROVE ~SameTopic(rest[j], m)
    <3>1. j \in 1 .. Len(rest) /\ j + 1 \in i + 1 .. Len(sent)
      BY <1>1
    <3>2. rest[j] = sent[j + 1] BY <1>1, <3>1
    <3> QED BY <2>1, <3>1, <3>2
  <2>3. CASE i = 1
    <3>1. Shows(now, m) BY <1>1, <2>1, <2>3, ArrivesAndStays
    <3>2. Silent(rest, m) BY <2>2, <2>3 DEF Silent
    <3> QED BY <3>1, <3>2 DEF LastWord, Silent
  <2>4. CASE i # 1
    <3>1. i - 1 \in 1 .. Len(rest) /\ rest[i - 1] = m
      BY <1>1, <2>1, <2>4
    <3>2. \A j \in (i - 1) + 1 .. Len(rest) : ~SameTopic(rest[j], m)
      BY <2>2
    <3> QED BY <3>1, <3>2 DEF LastWord
  <2> QED BY <2>3, <2>4
<1> HIDE DEF now, rest
<1> QED BY <1>2, <1>3 DEF LastWord, Silent, now, rest

\* It stays the last word when messages about other topics are sent.
LEMMA LastWordKept ==
    ASSUME NEW held, NEW sent \in Seq(Message), NEW batch \in Seq(Message), NEW m,
           LastWord(held, sent, m), Silent(batch, m)
    PROVE  LastWord(held, sent \o batch, m)
<1> DEFINE all == sent \o batch
<1>1. /\ Len(sent) \in Nat /\ Len(batch) \in Nat /\ Len(all) = Len(sent) + Len(batch)
      /\ \A i \in 1 .. Len(sent) : all[i] = sent[i]
      /\ \A i \in Len(sent) + 1 .. Len(all) :
           i - Len(sent) \in 1 .. Len(batch) /\ all[i] = batch[i - Len(sent)]
  BY ConcatProperties, LenProperties
<1>2. \A i \in Len(sent) + 1 .. Len(all) : ~SameTopic(all[i], m)
  BY <1>1 DEF Silent
<1> HIDE DEF all
<1>3. CASE Shows(held, m) /\ Silent(sent, m)
  <2>1. \A i \in 1 .. Len(all) : ~SameTopic(all[i], m)
    BY <1>1, <1>2, <1>3 DEF Silent
  <2> QED BY <1>3, <2>1 DEF LastWord, all
<1>4. CASE \E i \in 1 .. Len(sent) :
             sent[i] = m /\ \A j \in i + 1 .. Len(sent) : ~SameTopic(sent[j], m)
  <2>1. PICK i \in 1 .. Len(sent) :
          sent[i] = m /\ \A j \in i + 1 .. Len(sent) : ~SameTopic(sent[j], m)
    BY <1>4
  <2>2. i \in 1 .. Len(all) /\ all[i] = m
    BY <1>1, <2>1
  <2>3. \A j \in i + 1 .. Len(all) : ~SameTopic(all[j], m)
    BY <1>1, <1>2, <2>1
  <2> QED BY <2>2, <2>3 DEF LastWord, all
<1> QED BY <1>3, <1>4 DEF LastWord, Silent

\* It is the last word when nothing sent after it is about its topic.
LEMMA LastWordSent ==
    ASSUME NEW held, NEW sent \in Seq(Message), NEW batch \in Seq(Message), NEW m,
           NEW k \in 1 .. Len(batch), batch[k] = m,
           \A j \in k + 1 .. Len(batch) : ~SameTopic(batch[j], m)
    PROVE  LastWord(held, sent \o batch, m)
<1>1. /\ Len(sent) \in Nat /\ Len(batch) \in Nat
      /\ Len(sent \o batch) = Len(sent) + Len(batch)
      /\ \A i \in Len(sent) + 1 .. Len(sent \o batch) :
           i - Len(sent) \in 1 .. Len(batch) /\ (sent \o batch)[i] = batch[i - Len(sent)]
  BY ConcatProperties, LenProperties
<1>2. Len(sent) + k \in 1 .. Len(sent \o batch) /\ (sent \o batch)[Len(sent) + k] = m
  BY <1>1
<1>3. ASSUME NEW j \in Len(sent) + k + 1 .. Len(sent \o batch)
      PROVE  ~SameTopic((sent \o batch)[j], m)
  <2>1. j \in Len(sent) + 1 .. Len(sent \o batch) /\ j - Len(sent) \in k + 1 .. Len(batch)
    BY <1>1
  <2> QED BY <1>1, <2>1
<1> QED BY <1>2, <1>3 DEF LastWord

\* Silence about a topic is kept by silent messages and by arrivals.
LEMMA SilenceKept ==
    ASSUME NEW sent \in Seq(Message), NEW m, Silent(sent, m)
    PROVE  /\ \A batch \in Seq(Message) : Silent(batch, m) => Silent(sent \o batch, m)
           /\ sent # <<>> => ~SameTopic(Head(sent), m) /\ Silent(Tail(sent), m)
<1>1. ASSUME NEW batch \in Seq(Message), Silent(batch, m) PROVE Silent(sent \o batch, m)
  <2>1. ASSUME NEW i \in 1 .. Len(sent \o batch) PROVE ~SameTopic((sent \o batch)[i], m)
    <3>1. i \in 1 .. Len(sent) \/ i - Len(sent) \in 1 .. Len(batch)
      BY ConcatProperties, LenProperties
    <3> QED BY <1>1, <3>1, ConcatProperties, LenProperties DEF Silent
  <2> QED BY <2>1 DEF Silent
<1>2. ASSUME sent # <<>> PROVE ~SameTopic(Head(sent), m) /\ Silent(Tail(sent), m)
  <2>1. /\ Len(sent) \in Nat /\ 1 <= Len(sent) /\ Head(sent) = sent[1]
        /\ Len(Tail(sent)) = Len(sent) - 1
        /\ \A i \in 1 .. Len(Tail(sent)) : Tail(sent)[i] = sent[i + 1]
    BY <1>2, HeadTailProperties, EmptySeq
  <2>2. ASSUME NEW i \in 1 .. Len(Tail(sent)) PROVE ~SameTopic(Tail(sent)[i], m)
    <3>1. i + 1 \in 1 .. Len(sent) BY <2>1
    <3> QED BY <2>1, <3>1 DEF Silent
  <2> QED BY <2>1, <2>2 DEF Silent
<1> QED BY <1>1, <1>2

\* When nothing is under way, the broker shows it.
LEMMA LastWordShown ==
    ASSUME NEW held, NEW m, LastWord(held, <<>>, m)
    PROVE  Shows(held, m)
BY DEF LastWord

(* The invariant                                                             *)

\* The service remembers the availabilities and the discoveries together, and
\* throttles only what it has published on this connection.
MemoryAgrees ==
    /\ discovered = {b \in Batteries : availability[b] = "online"}
    /\ recent \subseteq discovered

\* What this connection has published is the last word on its topic.
WireSpeaks ==
    Up =>
        /\ LastWord(broker, wire, Status("online"))
        /\ \A b \in Batteries :
             IF availability[b] = "none" THEN Silent(wire, Avail(b, "online"))
             ELSE LastWord(broker, wire, Avail(b, availability[b]))
        /\ \A b \in discovered : LastWord(broker, wire, Discovery(b, "current"))

\* Nothing but the status goes out before the broker has the status.
ServingSpeaks ==
    /\ phase = "serving" => /\ LastWord(broker, wire, Bridge(Cardinality(discovered)))
                            /\ Silent(wire, Status("online"))
    /\ phase = "announcing" => \A b \in Batteries : availability[b] = "none"

Waiting(b) == \E i \in 1 .. Len(queue) : queue[i].b = b

\* The last event queued of a battery says whether it is there.
QueueSpeaks ==
    \A i \in 1 .. Len(queue) :
        (\A j \in i + 1 .. Len(queue) : queue[j].b # queue[i].b) =>
            (queue[i].kind = "poll" <=> queue[i].b \in present)

\* What was published of a battery with no event queued is what it is.
MemorySpeaks ==
    \A b \in Batteries \ lost :
        ~Waiting(b) /\ availability[b] # "none" =>
            (availability[b] = "online" <=> b \in present)

\* A battery that is gone and of which this connection has not spoken is not
\* shown as online, and nothing of the connection before will show it so.
GoneIsOver ==
    \A b \in Batteries \ (present \cup lost) :
        ~Waiting(b) /\ (Up => availability[b] = "none") =>
            /\ broker.avail[b] # "online"
            /\ \A i \in 1 .. Len(stale) : stale[i] # Avail(b, "online")

\* A connection starts with nothing left of the one before; between them the
\* status is online only until the will is published; and a process that has
\* stopped has forgotten everything.
LinkSpeaks ==
    /\ Up => stale = <<>> /\ ~willDue /\ ~unheard
    /\ ~Up => wire = <<>>
    /\ ~Running => lost = Batteries /\ present = {} /\ queue = <<>>
    /\ ~Up /\ phase # "parting" /\ ~willDue /\ ~unheard =>
            stale = <<>> /\ broker.status # "online"

PresenceInv ==
    /\ TypeOK
    /\ MemoryAgrees /\ WireSpeaks /\ ServingSpeaks
    /\ QueueSpeaks /\ MemorySpeaks
    /\ GoneIsOver /\ LinkSpeaks

(* The emulator's side                                                       *)

\* The two sides of the invariant that do not see the queue and the two that
\* do not see the wire.
LEMMA WireKept ==
    ASSUME WireSpeaks, ServingSpeaks, UNCHANGED <<phase, wire, broker, availability, discovered>>
    PROVE  WireSpeaks' /\ ServingSpeaks'
BY DEF WireSpeaks, ServingSpeaks, Up

\* An event that is queued, for the oldest one when the queue is full, says
\* what the emulator knows of its battery.
LEMMA PutStep ==
    ASSUME PresenceInv, NEW ev \in Event, PutNowait(ev), Running,
           present' \subseteq Batteries,
           \A b \in Batteries : b \in present' <=>
                IF b = ev.b THEN ev.kind = "poll" ELSE b \in present,
           UNCHANGED <<memory, link, broker, faults>>
    PROVE  PresenceInv'
<1> USE DEF PresenceInv
<1> DEFINE d == IF Len(queue) < QueueMax THEN 0 ELSE 1
           kept == IF Len(queue) < QueueMax THEN queue ELSE Tail(queue)
<1>1. /\ ev.b \in Batteries /\ ev.kind \in {"poll", "remove"}
      /\ queue \in Seq(Event) /\ Len(queue) \in Nat /\ Len(queue) <= QueueMax
      /\ QueueMax \in Nat \ {0}
  BY PresenceAssumption, LenProperties DEF Event, TypeOK
<1>2. d = 1 => queue # <<>> /\ Head(queue) = queue[1] /\ 1 \in 1 .. Len(queue)
               /\ Head(queue) \in Event
  BY <1>1, HeadTailProperties
<1>3. /\ kept \in Seq(Event) /\ Len(kept) = Len(queue) - d /\ Len(kept) < QueueMax
      /\ \A i \in 1 .. Len(kept) : kept[i] = queue[i + d]
  BY <1>1, <1>2, HeadTailProperties
<1>4. /\ queue' = Append(kept, ev)
      /\ d = 0 => lost' = lost
      /\ d = 1 => lost' = lost \cup {queue[1].b} /\ queue[1].b \in Batteries
  BY <1>1, <1>2 DEF PutNowait, Event
<1>5. d \in {0, 1}
  OBVIOUS
<1> HIDE DEF d, kept
<1>6. /\ queue' \in Seq(Event) /\ Len(queue') = Len(kept) + 1 /\ Len(kept) \in Nat
      /\ queue'[Len(kept) + 1] = ev
      /\ \A i \in 1 .. Len(kept) : queue'[i] = kept[i]
  BY <1>3, <1>4, AppendProperties, LenProperties
<1>7. \A i \in 1 .. Len(kept) : queue'[i] = queue[i + d] /\ i + d \in 1 .. Len(queue)
  BY <1>1, <1>3, <1>5, <1>6
<1>8. TypeOK'
  <2>1. lost' \subseteq Batteries
    BY <1>4, <1>5 DEF TypeOK
  <2>2. Len(queue') <= QueueMax
    BY <1>1, <1>3, <1>6
  <2> QED BY <1>6, <2>1, <2>2 DEF TypeOK, memory, link
<1>9. MemoryAgrees' /\ WireSpeaks' /\ ServingSpeaks'
  BY WireKept DEF MemoryAgrees, memory, link
<1>10. QueueSpeaks'
  <2> SUFFICES ASSUME NEW i \in 1 .. Len(queue'),
                      \A j \in i + 1 .. Len(queue') : queue'[j].b # queue'[i].b
               PROVE  queue'[i].kind = "poll" <=> queue'[i].b \in present'
    BY DEF QueueSpeaks
  <2>1. CASE i = Len(kept) + 1
    BY <1>1, <1>6, <2>1
  <2>2. CASE i \in 1 .. Len(kept)
    <3>1. ev.b # queue[i + d].b
      BY <1>6, <1>7, <2>2
    <3>2. ASSUME NEW j \in i + d + 1 .. Len(queue) PROVE queue[j].b # queue[i + d].b
      <4>1. j - d \in 1 .. Len(kept) /\ j - d \in i + 1 .. Len(queue') /\ (j - d) + d = j
        BY <1>1, <1>3, <1>5, <1>6, <2>2
      <4> QED BY <1>7, <2>2, <4>1
    <3>3. queue[i + d].kind = "poll" <=> queue[i + d].b \in present
      BY <1>7, <2>2, <3>2 DEF QueueSpeaks
    <3>4. queue[i + d].b \in Batteries
      <4>1. i + d \in 1 .. Len(queue) BY <1>7, <2>2
      <4>2. queue[i + d] \in Event BY <1>1, <4>1, ElementOfSeq
      <4> QED BY <4>2 DEF Event
    <3>5. queue'[i] = queue[i + d]
      BY <1>7, <2>2
    <3>6. queue[i + d].b \in present' <=> queue[i + d].b \in present
      BY <3>1, <3>4
    <3> QED BY <3>3, <3>5, <3>6
  <2> QED BY <1>6, <2>1, <2>2
<1>11. \A b \in Batteries \ lost' : ~Waiting(b)' => b # ev.b /\ ~Waiting(b)
  <2> SUFFICES ASSUME NEW b \in Batteries \ lost', ~Waiting(b)'
               PROVE  b # ev.b /\ ~Waiting(b)
    OBVIOUS
  <2>1. b # ev.b
    BY <1>6 DEF Waiting
  <2>2. ASSUME NEW i \in 1 .. Len(queue) PROVE queue[i].b # b
    <3>1. CASE i - d \in 1 .. Len(kept)
      <4>1. queue'[i - d] = queue[i]
        BY <1>1, <1>5, <1>7, <3>1
      <4> QED BY <1>6, <3>1, <4>1 DEF Waiting
    <3>2. CASE i = 1 /\ d = 1
      BY <1>2, <1>4, <3>2
    <3> QED BY <1>1, <1>3, <1>5, <3>1, <3>2
  <2> QED BY <2>1, <2>2 DEF Waiting
<1>12. /\ UNCHANGED <<availability, phase, broker, stale>>
       /\ lost \subseteq lost'
       /\ \A b \in Batteries : b # ev.b => (b \in present' <=> b \in present)
  BY <1>4, <1>5 DEF memory, link
<1>13. MemorySpeaks'
  BY <1>11, <1>12 DEF MemorySpeaks, Waiting
<1>14. GoneIsOver'
  BY <1>11, <1>12 DEF GoneIsOver, Waiting, Up
<1>15. LinkSpeaks'
  BY DEF LinkSpeaks, link, Up, Running
<1> QED BY <1>8, <1>9, <1>10, <1>13, <1>14, <1>15

\* A poll queues an event or finds the queue full (on_ct002_response).
LEMMA PollStep == ASSUME PresenceInv, NEW b \in Batteries, Poll(b) PROVE PresenceInv'
<1>1. present \subseteq Batteries BY DEF PresenceInv, TypeOK
<1>2. [kind |-> "poll", b |-> b] \in Event BY DEF Event
<1> QED BY <1>1, <1>2, PutStep DEF Poll

\* An eviction queues a removal, or the battery is lost (on_ct002_consumer_removed).
LEMMA EvictStep == ASSUME PresenceInv, NEW b \in Batteries, Evict(b) PROVE PresenceInv'
<1>1. present \subseteq Batteries BY DEF PresenceInv, TypeOK
<1>2. [kind |-> "remove", b |-> b] \in Event BY DEF Event
<1> QED BY <1>1, <1>2, PutStep DEF Evict

\* The events, what was published and what is known, left alone.
LEMMA KnowledgeKept ==
    ASSUME QueueSpeaks, MemorySpeaks, UNCHANGED <<present, queue, availability>>,
           lost \subseteq lost'
    PROVE  QueueSpeaks' /\ MemorySpeaks'
BY DEF QueueSpeaks, MemorySpeaks, Waiting

\* A passed throttle interval forgets nothing that was published (_state_due).
LEMMA IntervalStep ==
    ASSUME PresenceInv, NEW b \in Batteries, IntervalPasses(b) PROVE PresenceInv'
<1> USE DEF PresenceInv, IntervalPasses, link
<1>1. TypeOK' BY DEF TypeOK
<1>2. MemoryAgrees' BY DEF MemoryAgrees
<1>3. WireSpeaks' /\ ServingSpeaks' BY WireKept
<1>4. QueueSpeaks' /\ MemorySpeaks' BY KnowledgeKept
<1>5. GoneIsOver' BY DEF GoneIsOver, Waiting, Up
<1>6. LinkSpeaks' BY DEF LinkSpeaks, Up, Running
<1> QED BY <1>1, <1>2, <1>3, <1>4, <1>5, <1>6

(* The publish loop                                                          *)

\* The oldest event leaves the queue, and what is published of its battery is
\* what it says.
LEMMA HandledStep ==
    ASSUME PresenceInv, queue # <<>>, phase = "serving",
           queue' = Tail(queue), lost' = lost \ {Head(queue).b},
           availability' = [availability EXCEPT ![Head(queue).b] =
                                IF Head(queue).kind = "poll" THEN "online" ELSE "offline"],
           UNCHANGED <<present, phase, stale, broker>>
    PROVE  QueueSpeaks' /\ MemorySpeaks' /\ GoneIsOver'
<1> USE DEF PresenceInv
<1>0. /\ queue \in Seq(Event) /\ Len(queue) \in Nat /\ 1 \in 1 .. Len(queue)
      /\ Head(queue) = queue[1] /\ Head(queue) \in Event
      /\ Len(queue') = Len(queue) - 1
      /\ \A i \in 1 .. Len(queue') : queue'[i] = queue[i + 1]
  BY HeadTailProperties, EmptySeq DEF TypeOK
<1> PICK ev \in Event : ev = Head(queue)
  BY <1>0
<1>1. /\ Len(queue) \in Nat /\ 1 \in 1 .. Len(queue) /\ Len(queue') = Len(queue) - 1
      /\ ev = queue[1] /\ ev.b \in Batteries /\ ev.kind \in {"poll", "remove"}
      /\ \A i \in 1 .. Len(queue') : queue'[i] = queue[i + 1] /\ i + 1 \in 1 .. Len(queue)
  BY <1>0 DEF Event
<1>2. availability \in [Batteries -> {"none", "online", "offline"}]
  BY DEF TypeOK
<1>3. /\ \A b \in Batteries \ {ev.b} : availability'[b] = availability[b]
      /\ availability'[ev.b] = IF ev.kind = "poll" THEN "online" ELSE "offline"
  BY <1>1, <1>2
<1>4. lost' = lost \ {ev.b}
  OBVIOUS
<1>5. QueueSpeaks'
  <2> SUFFICES ASSUME NEW i \in 1 .. Len(queue'),
                      \A j \in i + 1 .. Len(queue') : queue'[j].b # queue'[i].b
               PROVE  queue'[i].kind = "poll" <=> queue'[i].b \in present
    BY DEF QueueSpeaks
  <2>1. ASSUME NEW j \in (i + 1) + 1 .. Len(queue) PROVE queue[j].b # queue[i + 1].b
    <3>1. j - 1 \in i + 1 .. Len(queue') /\ j - 1 \in 1 .. Len(queue') /\ (j - 1) + 1 = j
      BY <1>1
    <3>2. queue'[j - 1] = queue[j] BY <1>1, <3>1
    <3> QED BY <1>1, <3>1, <3>2
  <2> QED BY <1>1, <2>1 DEF QueueSpeaks
<1>6. ASSUME NEW b \in Batteries, ~Waiting(b)' PROVE ~(\E i \in 2 .. Len(queue) : queue[i].b = b)
  <2> SUFFICES ASSUME NEW i \in 2 .. Len(queue), queue[i].b = b PROVE FALSE
    OBVIOUS
  <2>1. i - 1 \in 1 .. Len(queue') /\ (i - 1) + 1 = i
    BY <1>1
  <2>2. queue'[i - 1] = queue[i] BY <1>1, <2>1
  <2> QED BY <1>6, <2>1, <2>2 DEF Waiting
<1>7. ASSUME NEW b \in Batteries, ~Waiting(b)', b # ev.b PROVE ~Waiting(b)
  <2>1. \A i \in 1 .. Len(queue) : i = 1 \/ i \in 2 .. Len(queue)
    BY <1>1
  <2> QED BY <1>1, <1>6, <1>7, <2>1 DEF Waiting
<1>8. ~Waiting(ev.b)' => (ev.kind = "poll" <=> ev.b \in present)
  <2>1. 1 + 1 = 2 OBVIOUS
  <2> QED BY <1>1, <1>6, <2>1 DEF QueueSpeaks
<1>9. MemorySpeaks'
  <2> SUFFICES ASSUME NEW b \in Batteries \ lost', ~Waiting(b)', availability'[b] # "none"
               PROVE  availability'[b] = "online" <=> b \in present
    BY DEF MemorySpeaks
  <2>1. CASE b = ev.b
    BY <1>3, <1>8, <2>1
  <2>2. CASE b # ev.b
    BY <1>3, <1>4, <1>7, <2>2 DEF MemorySpeaks
  <2> QED BY <2>1, <2>2
<1>10. GoneIsOver'
  <2> SUFFICES ASSUME NEW b \in Batteries \ (present \cup lost'), ~Waiting(b)',
                      availability'[b] = "none"
               PROVE  /\ broker.avail[b] # "online"
                      /\ \A i \in 1 .. Len(stale) : stale[i] # Avail(b, "online")
    BY DEF GoneIsOver, Up
  <2>1. b # ev.b
    BY <1>3
  <2> QED BY <1>3, <1>4, <1>7, <2>1 DEF GoneIsOver, Up
<1> QED BY <1>5, <1>9, <1>10

\* _publish_availability leaves the value as the last word, and says nothing
\* about anything else.
LEMMA AvailabilityBatch ==
    ASSUME PresenceInv, phase = "serving", NEW b \in Batteries,
           NEW value \in {"online", "offline"}
    PROVE  /\ AvailabilityMoves(b, value) \in Seq(Message)
           /\ wire \o AvailabilityMoves(b, value) \in Seq(Message)
           /\ LastWord(broker, wire \o AvailabilityMoves(b, value), Avail(b, value))
           /\ \A m : ~SameTopic(Avail(b, value), m) => Silent(AvailabilityMoves(b, value), m)
<1> DEFINE batch == AvailabilityMoves(b, value)
<1>1. Avail(b, value) \in Message /\ wire \in Seq(Message)
  BY Sendable DEF PresenceInv, TypeOK
<1>2. CASE availability[b] = value
  <2>1. batch = <<>> BY <1>2 DEF AvailabilityMoves
  <2>2. wire \o batch = wire BY <1>1, <2>1, ConcatEmptySeq
  <2>3. LastWord(broker, wire, Avail(b, value))
    BY <1>2 DEF PresenceInv, WireSpeaks, Up
  <2>4. \A m : Silent(batch, m) BY <2>1 DEF Silent
  <2> QED BY <1>1, <2>1, <2>2, <2>3, <2>4, EmptySeq
<1>3. CASE availability[b] # value
  <2>1. batch = <<Avail(b, value)>> BY <1>3 DEF AvailabilityMoves
  <2>2. batch \in Seq(Message) /\ Len(batch) = 1 /\ batch[1] = Avail(b, value)
    BY <1>1, <2>1
  <2> HIDE DEF batch
  <2>3. LastWord(broker, wire \o batch, Avail(b, value))
    <3>1. 1 \in 1 .. Len(batch) /\ \A j \in 1 + 1 .. Len(batch) : FALSE
      BY <2>2
    <3> QED BY <1>1, <2>2, <3>1, LastWordSent
  <2>4. \A m : ~SameTopic(Avail(b, value), m) => Silent(batch, m)
    BY <2>2 DEF Silent
  <2>5. wire \o batch \in Seq(Message)
    BY <1>1, <2>2, ConcatProperties
  <2> QED BY <2>2, <2>3, <2>4, <2>5 DEF batch
<1> QED BY <1>2, <1>3

\* Which messages share a topic.
LEMMA Topics ==
    /\ \A b, v, w : ~SameTopic(Avail(b, v), Status(w)) /\ ~SameTopic(Status(w), Avail(b, v))
    /\ \A b, c, v, w : SameTopic(Avail(b, v), Avail(c, w)) <=> b = c
    /\ \A b, c, v, w : SameTopic(Discovery(b, v), Discovery(c, w)) <=> b = c
    /\ \A b, c, v, w : /\ ~SameTopic(Avail(b, v), Discovery(c, w))
                       /\ ~SameTopic(Discovery(c, w), Avail(b, v))
    /\ \A c, v, w : ~SameTopic(Discovery(c, w), Status(v))
    /\ \A n, b, v : /\ ~SameTopic(Bridge(n), Status(v)) /\ ~SameTopic(Bridge(n), Avail(b, v))
                    /\ ~SameTopic(Bridge(n), Discovery(b, v)) /\ ~SameTopic(Avail(b, v), Bridge(n))
                    /\ ~SameTopic(Discovery(b, v), Bridge(n))
<1>1. /\ \A b, v : Avail(b, v).topic = "avail" /\ Avail(b, v).b = b
      /\ \A b, v : Discovery(b, v).topic = "discovery" /\ Discovery(b, v).b = b
      /\ \A v : Status(v).topic = "status"
      /\ \A n : Bridge(n).topic = "bridge"
  BY DEF Avail, Discovery, Status, Bridge
<1> QED BY <1>1 DEF SameTopic

\* A batch that speaks of no status and no availability.
Neutral(batch) ==
    /\ \A v : Silent(batch, Status(v))
    /\ \A c, v : Silent(batch, Avail(c, v))

\* What the wire says once the value of b's availability has been sent.
Said(new, b, value) ==
    /\ new \in Seq(Message)
    /\ LastWord(broker, new, Status("online")) /\ Silent(new, Status("online"))
    /\ LastWord(broker, new, Avail(b, value))
    /\ \A c \in Batteries \ {b} :
         IF availability[c] = "none" THEN Silent(new, Avail(c, "online"))
         ELSE LastWord(broker, new, Avail(c, availability[c]))

\* The discoveries a batch does not speak of.
StillDiscovered(new, batch) ==
    \A c \in discovered :
        Silent(batch, Discovery(c, "current")) => LastWord(broker, new, Discovery(c, "current"))

\* A handler that puts an availability and then a neutral batch on the wire
\* leaves the last word on every topic it does not speak of.
LEMMA BatchSent ==
    ASSUME PresenceInv, phase = "serving", NEW b \in Batteries,
           NEW value \in {"online", "offline"}, NEW batch \in Seq(Message),
           NEW new, new = (wire \o AvailabilityMoves(b, value)) \o batch,
           Neutral(batch)
    PROVE  Said(new, b, value) /\ StillDiscovered(new, batch)
<1> DEFINE moves == AvailabilityMoves(b, value)
           first == wire \o moves
<1>1. /\ wire \in Seq(Message) /\ moves \in Seq(Message) /\ first \in Seq(Message)
      /\ LastWord(broker, first, Avail(b, value))
      /\ \A m : ~SameTopic(Avail(b, value), m) => Silent(moves, m)
  BY AvailabilityBatch DEF PresenceInv, TypeOK
<1>2. new = first \o batch
  OBVIOUS
<1> HIDE DEF moves
<1>3. ASSUME NEW m, ~SameTopic(Avail(b, value), m), LastWord(broker, wire, m)
      PROVE  LastWord(broker, first, m)
  BY <1>1, <1>3, LastWordKept
<1>4. ASSUME NEW m, ~SameTopic(Avail(b, value), m), Silent(wire, m)
      PROVE  Silent(first, m)
  BY <1>1, <1>4, SilenceKept
<1> HIDE DEF first
<1>5. ASSUME NEW m, LastWord(broker, first, m), Silent(batch, m)
      PROVE  LastWord(broker, new, m)
  BY <1>1, <1>2, <1>5, LastWordKept
<1>6. ASSUME NEW m, Silent(first, m), Silent(batch, m)
      PROVE  Silent(new, m)
  BY <1>1, <1>2, <1>6, SilenceKept
<1>7. new \in Seq(Message)
  BY <1>1, <1>2, ConcatProperties
<1>8. LastWord(broker, new, Status("online")) /\ Silent(new, Status("online"))
  <2>1. LastWord(broker, wire, Status("online")) /\ Silent(wire, Status("online"))
    BY DEF PresenceInv, WireSpeaks, ServingSpeaks, Up
  <2> QED BY <1>3, <1>4, <1>5, <1>6, <2>1, Topics DEF Neutral
<1>9. LastWord(broker, new, Avail(b, value))
  BY <1>1, <1>5 DEF Neutral
<1>10. ASSUME NEW c \in Batteries \ {b}
       PROVE  IF availability[c] = "none" THEN Silent(new, Avail(c, "online"))
              ELSE LastWord(broker, new, Avail(c, availability[c]))
  <2>1. IF availability[c] = "none" THEN Silent(wire, Avail(c, "online"))
        ELSE LastWord(broker, wire, Avail(c, availability[c]))
    BY DEF PresenceInv, WireSpeaks, Up
  <2>2. \A v : ~SameTopic(Avail(b, value), Avail(c, v))
    BY Topics
  <2> QED BY <1>3, <1>4, <1>5, <1>6, <2>1, <2>2 DEF Neutral
<1>11. ASSUME NEW c \in discovered, Silent(batch, Discovery(c, "current"))
       PROVE  LastWord(broker, new, Discovery(c, "current"))
  <2>1. LastWord(broker, wire, Discovery(c, "current"))
    BY DEF PresenceInv, WireSpeaks, Up
  <2> QED BY <1>3, <1>5, <1>11, <2>1, Topics
<1> QED BY <1>7, <1>8, <1>9, <1>10, <1>11 DEF Said, StillDiscovered

\* A batch that ends a handler: nothing, or the count, or the count and a
\* discovery after its retirement.
Announcement(b, n) == <<Bridge(n), Discovery(b, "retiring"), Discovery(b, "current")>>

\* What a handled poll publishes: the count and the discovery are its last word,
\* and it is silent on the status, on availability and on other batteries.
LEMMA Batches ==
    ASSUME NEW b \in Batteries, NEW S \in SUBSET Batteries, NEW n, n = Cardinality(S)
    PROVE  /\ Announcement(b, n) \in Seq(Message) /\ <<Bridge(n)>> \in Seq(Message)
           /\ \A v : Silent(Announcement(b, n), Status(v)) /\ Silent(<<Bridge(n)>>, Status(v))
           /\ \A c, v : Silent(Announcement(b, n), Avail(c, v)) /\ Silent(<<Bridge(n)>>, Avail(c, v))
           /\ \A c, v : Silent(<<Bridge(n)>>, Discovery(c, v))
           /\ \A c, v : c # b => Silent(Announcement(b, n), Discovery(c, v))
           /\ \A held : \A sent \in Seq(Message) :
                /\ LastWord(held, sent \o <<Bridge(n)>>, Bridge(n))
                /\ LastWord(held, sent \o Announcement(b, n), Bridge(n))
                /\ LastWord(held, sent \o Announcement(b, n), Discovery(b, "current"))
<1> DEFINE one == <<Bridge(n)>>
           all == Announcement(b, n)
<1>1. Bridge(n) \in Message /\ Discovery(b, "retiring") \in Message
      /\ Discovery(b, "current") \in Message
  BY Sendable
<1>2. /\ one \in Seq(Message) /\ Len(one) = 1 /\ one[1] = Bridge(n)
      /\ all \in Seq(Message) /\ Len(all) = 3 /\ all[1] = Bridge(n)
      /\ all[2] = Discovery(b, "retiring") /\ all[3] = Discovery(b, "current")
  BY <1>1 DEF Announcement
<1> HIDE DEF one, all
<1>3. \A i \in 1 .. Len(one) : one[i] = Bridge(n)
  BY <1>2
<1>4. \A i \in 1 .. Len(all) : \/ all[i] = Bridge(n)
                                \/ all[i] = Discovery(b, "retiring")
                                \/ all[i] = Discovery(b, "current")
  BY <1>2
<1>5. /\ \A v : Silent(all, Status(v)) /\ Silent(one, Status(v))
      /\ \A c, v : Silent(all, Avail(c, v)) /\ Silent(one, Avail(c, v))
      /\ \A c, v : Silent(one, Discovery(c, v))
      /\ \A c, v : c # b => Silent(all, Discovery(c, v))
  <2>1. \A m : ~SameTopic(Bridge(n), m) => Silent(one, m)
    BY <1>3 DEF Silent
  <2>2. \A m : /\ ~SameTopic(Bridge(n), m)
               /\ ~SameTopic(Discovery(b, "retiring"), m)
               /\ ~SameTopic(Discovery(b, "current"), m)
               => Silent(all, m)
    BY <1>4 DEF Silent
  <2>3. \A v : Silent(all, Status(v)) /\ Silent(one, Status(v))
    BY <2>1, <2>2, Topics
  <2>4. \A c, v : Silent(all, Avail(c, v)) /\ Silent(one, Avail(c, v))
    BY <2>1, <2>2, Topics
  <2>5. \A c, v : Silent(one, Discovery(c, v))
    BY <2>1, Topics
  <2>6. \A c, v : c # b => Silent(all, Discovery(c, v))
    BY <2>2, Topics
  <2> QED BY <2>3, <2>4, <2>5, <2>6
<1>6. ASSUME NEW held, NEW sent \in Seq(Message)
      PROVE  /\ LastWord(held, sent \o one, Bridge(n))
             /\ LastWord(held, sent \o all, Bridge(n))
             /\ LastWord(held, sent \o all, Discovery(b, "current"))
  <2>1. 1 \in 1 .. Len(one) /\ \A j \in 1 + 1 .. Len(one) : FALSE
    BY <1>2
  <2>2. /\ 1 \in 1 .. Len(all)
        /\ \A j \in 1 + 1 .. Len(all) : ~SameTopic(all[j], Bridge(n))
    <3>1. \A j \in 1 + 1 .. Len(all) : \/ all[j] = Discovery(b, "retiring")
                                      \/ all[j] = Discovery(b, "current")
      BY <1>2
    <3> QED BY <1>2, <3>1, Topics
  <2>3. 3 \in 1 .. Len(all) /\ \A j \in 3 + 1 .. Len(all) : FALSE
    BY <1>2
  <2>4. LastWord(held, sent \o one, Bridge(n))
    BY <1>2, <2>1, LastWordSent
  <2>5. LastWord(held, sent \o all, Bridge(n))
    BY <1>2, <2>2, LastWordSent
  <2>6. LastWord(held, sent \o all, Discovery(b, "current"))
    BY <1>2, <2>3, LastWordSent
  <2> QED BY <2>4, <2>5, <2>6
<1>7. \A held : \A sent \in Seq(Message) :
        /\ LastWord(held, sent \o one, Bridge(n))
        /\ LastWord(held, sent \o all, Bridge(n))
        /\ LastWord(held, sent \o all, Discovery(b, "current"))
  BY <1>6
<1>8. one \in Seq(Message) /\ all \in Seq(Message)
  BY <1>2
<1> QED BY <1>5, <1>7, <1>8, Zenon DEF one, all

\* A handled poll announces the battery, with discovery, availability and count
\* as they changed (_handle_ct002_event).
LEMMA HandlePollStep ==
    ASSUME PresenceInv, phase = "serving", queue # <<>>,
           NEW b \in Batteries, b = Head(queue).b, Head(queue).kind = "poll", HandlePoll(b),
           lost' = lost \ {b}, queue' = Tail(queue),
           UNCHANGED <<present, phase, stale, willDue, unheard, broker, faults>>
    PROVE  PresenceInv'
<1> DEFINE batch == IF b \in discovered THEN <<>> ELSE Announcement(b, Cardinality(discovered \cup {b}))
<1>1. /\ TypeOK /\ MemoryAgrees /\ discovered \subseteq Batteries
      /\ availability \in [Batteries -> {"none", "online", "offline"}]
      /\ wire \in Seq(Message)
      /\ queue \in Seq(Event)
  BY DEF PresenceInv, TypeOK
<1>2. /\ availability' = [availability EXCEPT ![b] = "online"]
      /\ discovered' = discovered \cup {b} /\ recent' = recent \cup {b}
      /\ wire' = wire \o (AvailabilityMoves(b, "online") \o batch)
  BY DEF HandlePoll, Send, Announcement
<1>3. QueueSpeaks' /\ MemorySpeaks' /\ GoneIsOver'
  BY <1>2, HandledStep
<1>4. MemoryAgrees'
  <2>1. \A c \in Batteries : availability'[c] = IF c = b THEN "online" ELSE availability[c]
    BY <1>1, <1>2
  <2> QED BY <1>1, <1>2, <2>1 DEF MemoryAgrees
<1>5. /\ batch \in Seq(Message)
      /\ \A v : Silent(batch, Status(v))
      /\ \A c, v : Silent(batch, Avail(c, v))
      /\ \A c \in discovered : Silent(batch, Discovery(c, "current"))
  <2>1. CASE b \in discovered
    <3>1. batch = <<>> BY <2>1
    <3>2. \A m : Silent(batch, m) BY <3>1 DEF Silent
    <3> QED BY <3>1, <3>2, EmptySeq
  <2>2. CASE b \notin discovered
    <3>1. batch = Announcement(b, Cardinality(discovered'))
      BY <1>2, <2>2
    <3>2. discovered' \in SUBSET Batteries
      BY <1>1, <1>2
    <3> QED BY <2>2, <3>1, <3>2, Batches
  <2> QED BY <2>1, <2>2
<1>6. wire' = (wire \o AvailabilityMoves(b, "online")) \o batch
  <2>1. AvailabilityMoves(b, "online") \in Seq(Message)
    BY AvailabilityBatch
  <2>2. wire \in Seq(Message) /\ batch \in Seq(Message)
    BY <1>1, <1>5
  <2>3. (wire \o AvailabilityMoves(b, "online")) \o batch
            = wire \o (AvailabilityMoves(b, "online") \o batch)
    <3> HIDE DEF batch
    <3> QED BY SMTT(30), <2>1, <2>2, ConcatAssociative
  <2> HIDE DEF batch
  <2> QED BY <1>2, <2>3
<1>7. wire \o AvailabilityMoves(b, "online") \in Seq(Message)
  BY AvailabilityBatch
<1>8. LastWord(broker, wire', Bridge(Cardinality(discovered')))
      /\ LastWord(broker, wire', Discovery(b, "current"))
  <2>1. CASE b \in discovered
    <3>1. batch = <<>> /\ discovered' = discovered
      BY <1>1, <1>2, <2>1
    <3>2. wire' = wire \o AvailabilityMoves(b, "online")
      BY <1>6, <1>7, <3>1, ConcatEmptySeq
    <3>3. /\ LastWord(broker, wire, Bridge(Cardinality(discovered)))
          /\ LastWord(broker, wire, Discovery(b, "current"))
      BY <2>1 DEF PresenceInv, ServingSpeaks, WireSpeaks, Up
    <3>4. /\ AvailabilityMoves(b, "online") \in Seq(Message)
          /\ \A n : Silent(AvailabilityMoves(b, "online"), Bridge(n))
          /\ Silent(AvailabilityMoves(b, "online"), Discovery(b, "current"))
      BY AvailabilityBatch, Topics
    <3> QED BY <1>1, <3>1, <3>2, <3>3, <3>4, LastWordKept
  <2>2. CASE b \notin discovered
    <3>1. batch = Announcement(b, Cardinality(discovered'))
      BY <1>2, <2>2
    <3>2. discovered' \in SUBSET Batteries
      BY <1>1, <1>2
    <3> QED BY <1>6, <1>7, <3>1, <3>2, Batches
  <2> QED BY <2>1, <2>2
<1> HIDE DEF batch
<1>9. PICK new : new = wire'
  OBVIOUS
<1>a. Neutral(batch)
  BY <1>5 DEF Neutral
<1>b. Said(new, b, "online") /\ StillDiscovered(new, batch)
  <2>1. batch \in Seq(Message) BY <1>5
  <2>2. new = (wire \o AvailabilityMoves(b, "online")) \o batch BY <1>6, <1>9
  <2> QED BY <1>a, <2>1, <2>2, BatchSent
<1>10. WireSpeaks' /\ ServingSpeaks'
  <2>1. \A c \in Batteries : availability'[c] = IF c = b THEN "online" ELSE availability[c]
    BY <1>1, <1>2
  <2>2. \A c \in Batteries :
          IF availability'[c] = "none" THEN Silent(wire', Avail(c, "online"))
          ELSE LastWord(broker, wire', Avail(c, availability'[c]))
    BY <1>9, <1>b, <2>1 DEF Said
  <2>3. \A c \in discovered' : LastWord(broker, wire', Discovery(c, "current"))
    BY <1>2, <1>5, <1>8, <1>9, <1>b DEF StillDiscovered
  <2>4. WireSpeaks'
    BY <1>9, <1>b, <2>2, <2>3 DEF WireSpeaks, Said
  <2>5. ServingSpeaks'
    BY <1>8, <1>9, <1>b DEF ServingSpeaks, Said
  <2> QED BY <2>4, <2>5
<1>11. LinkSpeaks'
  BY DEF PresenceInv, LinkSpeaks, Up, Running
<1>12. TypeOK'
  <2>1. queue' \in Seq(Event) /\ Len(queue') <= QueueMax
    BY <1>1, HeadTailProperties, LenProperties, PresenceAssumption DEF TypeOK
  <2> QED BY <1>1, <1>2, <1>9, <1>b, <2>1 DEF TypeOK, Said
<1> QED BY <1>3, <1>4, <1>10, <1>11, <1>12 DEF PresenceInv

\* A handled removal says offline once and takes the battery out of the count
\* (_mark_offline).
LEMMA HandleRemoveStep ==
    ASSUME PresenceInv, phase = "serving", queue # <<>>,
           NEW b \in Batteries, b = Head(queue).b, Head(queue).kind = "remove", HandleRemove(b),
           lost' = lost \ {b}, queue' = Tail(queue),
           UNCHANGED <<present, phase, stale, willDue, unheard, broker, faults>>
    PROVE  PresenceInv'
<1> DEFINE batch == <<Bridge(Cardinality(discovered \ {b}))>>
<1>1. /\ TypeOK /\ MemoryAgrees /\ discovered \subseteq Batteries
      /\ availability \in [Batteries -> {"none", "online", "offline"}]
      /\ wire \in Seq(Message)
      /\ queue \in Seq(Event)
  BY DEF PresenceInv, TypeOK
<1>2. /\ availability' = [availability EXCEPT ![b] = "offline"]
      /\ discovered' = discovered \ {b} /\ recent' = recent \ {b}
      /\ wire' = wire \o (AvailabilityMoves(b, "offline") \o batch)
  BY DEF HandleRemove, Send
<1>3. QueueSpeaks' /\ MemorySpeaks' /\ GoneIsOver'
  BY <1>2, HandledStep
<1>4. MemoryAgrees'
  <2>1. \A c \in Batteries : availability'[c] = IF c = b THEN "offline" ELSE availability[c]
    BY <1>1, <1>2
  <2> QED BY <1>1, <1>2, <2>1 DEF MemoryAgrees
<1>5. /\ batch \in Seq(Message)
      /\ \A v : Silent(batch, Status(v))
      /\ \A c, v : Silent(batch, Avail(c, v))
      /\ \A c, v : Silent(batch, Discovery(c, v))
      /\ \A held : \A sent \in Seq(Message) :
            LastWord(held, sent \o batch, Bridge(Cardinality(discovered \ {b})))
  <2>1. discovered \ {b} \in SUBSET Batteries BY <1>1
  <2> QED BY <2>1, Batches
<1>6. wire' = (wire \o AvailabilityMoves(b, "offline")) \o batch
  <2>1. AvailabilityMoves(b, "offline") \in Seq(Message)
    BY AvailabilityBatch
  <2>2. wire \in Seq(Message) /\ batch \in Seq(Message)
    BY <1>1, <1>5
  <2>3. (wire \o AvailabilityMoves(b, "offline")) \o batch
            = wire \o (AvailabilityMoves(b, "offline") \o batch)
    <3> HIDE DEF batch
    <3> QED BY SMTT(30), <2>1, <2>2, ConcatAssociative
  <2> HIDE DEF batch
  <2> QED BY <1>2, <2>3
<1>7. wire \o AvailabilityMoves(b, "offline") \in Seq(Message)
  BY AvailabilityBatch
<1>8. LastWord(broker, wire', Bridge(Cardinality(discovered')))
  BY <1>2, <1>5, <1>6, <1>7
<1> HIDE DEF batch
<1>9. PICK new : new = wire'
  OBVIOUS
<1>a. Neutral(batch)
  BY <1>5 DEF Neutral
<1>b. Said(new, b, "offline") /\ StillDiscovered(new, batch)
  <2>1. batch \in Seq(Message) BY <1>5
  <2>2. new = (wire \o AvailabilityMoves(b, "offline")) \o batch BY <1>6, <1>9
  <2> QED BY <1>a, <2>1, <2>2, BatchSent
<1>10. WireSpeaks' /\ ServingSpeaks'
  <2>1. \A c \in Batteries : availability'[c] = IF c = b THEN "offline" ELSE availability[c]
    BY <1>1, <1>2
  <2>2. \A c \in Batteries :
          IF availability'[c] = "none" THEN Silent(wire', Avail(c, "online"))
          ELSE LastWord(broker, wire', Avail(c, availability'[c]))
    BY <1>9, <1>b, <2>1 DEF Said
  <2>3. \A c \in discovered' : LastWord(broker, wire', Discovery(c, "current"))
    BY <1>2, <1>5, <1>9, <1>b DEF StillDiscovered
  <2>4. WireSpeaks'
    BY <1>9, <1>b, <2>2, <2>3 DEF WireSpeaks, Said
  <2>5. ServingSpeaks'
    BY <1>8, <1>9, <1>b DEF ServingSpeaks, Said
  <2> QED BY <2>4, <2>5
<1>11. LinkSpeaks'
  BY DEF PresenceInv, LinkSpeaks, Up, Running
<1>12. TypeOK'
  <2>1. queue' \in Seq(Event) /\ Len(queue') <= QueueMax
    BY <1>1, HeadTailProperties, LenProperties, PresenceAssumption DEF TypeOK
  <2> QED BY <1>1, <1>2, <1>9, <1>b, <2>1 DEF TypeOK, Said
<1> QED BY <1>3, <1>4, <1>10, <1>11, <1>12 DEF PresenceInv

\* An event for a battery published less than an interval ago only leaves the
\* queue (_state_due).
LEMMA ThrottledStep ==
    ASSUME PresenceInv, phase = "serving", queue # <<>>,
           NEW b \in Batteries, b = Head(queue).b, Throttled(Head(queue)),
           lost' = lost \ {b}, queue' = Tail(queue),
           UNCHANGED <<memory, wire, present, phase, stale, willDue, unheard, broker, faults>>
    PROVE  PresenceInv'
<1> USE DEF PresenceInv
<1>1. b \in recent /\ Head(queue).kind = "poll"
  BY DEF Throttled
<1>2. availability \in [Batteries -> {"none", "online", "offline"}] /\ availability[b] = "online"
  BY <1>1 DEF MemoryAgrees, TypeOK
<1>3. availability' = [availability EXCEPT ![b] = "online"]
  BY <1>2 DEF memory
<1>4. QueueSpeaks' /\ MemorySpeaks' /\ GoneIsOver'
  BY <1>1, <1>3, HandledStep
<1>5. MemoryAgrees' /\ WireSpeaks' /\ ServingSpeaks'
  BY WireKept DEF MemoryAgrees, memory
<1>6. LinkSpeaks'
  BY DEF LinkSpeaks, Up, Running
<1>7. TypeOK'
  <2>1. queue' \in Seq(Event) /\ Len(queue') <= QueueMax
    BY HeadTailProperties, LenProperties, PresenceAssumption DEF TypeOK
  <2> QED BY <2>1 DEF TypeOK, memory
<1> QED BY <1>4, <1>5, <1>6, <1>7

\* The publish loop, whichever event it takes (_publish_loop).
LEMMA HandleEventStep == ASSUME PresenceInv, HandleEvent PROVE PresenceInv'
<1>1. queue # <<>> /\ queue \in Seq(Event)
  BY DEF HandleEvent, PresenceInv, TypeOK
<1>2. PICK b \in Batteries : b = Head(queue).b
  <2>1. Head(queue) \in Event BY <1>1, HeadTailProperties
  <2> QED BY <2>1 DEF Event
<1>3. /\ phase = "serving" /\ queue' = Tail(queue) /\ lost' = lost \ {b}
      /\ UNCHANGED <<present, phase, stale, willDue, unheard, broker, faults>>
  BY <1>2 DEF HandleEvent
<1>4. CASE Throttled(Head(queue)) /\ UNCHANGED <<memory, wire>>
  BY <1>1, <1>2, <1>3, <1>4, ThrottledStep DEF memory
<1>5. CASE Head(queue).kind = "poll" /\ HandlePoll(b)
  BY <1>1, <1>2, <1>3, <1>5, HandlePollStep
<1>6. CASE Head(queue).kind = "remove" /\ HandleRemove(b)
  BY <1>1, <1>2, <1>3, <1>6, HandleRemoveStep
<1> QED BY <1>2, <1>4, <1>5, <1>6 DEF HandleEvent

(* The link and the broker                                                   *)

\* What the invariant's types say of the broker and of the messages.
LEMMA BrokerTyped ==
    ASSUME TypeOK
    PROVE  /\ broker \in Held /\ wire \in Seq(Message) /\ stale \in Seq(Message)
           /\ \A held \in Held : [held EXCEPT !.status = "offline"] \in Held
BY DEF TypeOK, Held, Values, Payloads

\* A published will leaves the status offline, and every other topic alone.
LEMMA WillHeld ==
    ASSUME NEW held \in Held
    PROVE  /\ WillPublished(held) \in Held
           /\ WillPublished(held).avail = held.avail
           /\ willDue => WillPublished(held).status = "offline"
BY DEF WillPublished, Held, Values

\* A connection starts from an empty memory and announces the status (_announce).
LEMMA ConnectStep == ASSUME PresenceInv, Connect PROVE PresenceInv'
<1> USE DEF PresenceInv, Connect
<1>1. broker' \in Held /\ broker'.avail = broker.avail
  BY BrokerTyped, WillHeld
<1>2. \A b \in Batteries : availability'[b] = "none"
  OBVIOUS
<1>3. /\ wire' \in Seq(Message) /\ Len(wire') = 1 /\ wire'[1] = Status("online")
      /\ wire' = <<>> \o wire'
  BY Sendable, ConcatEmptySeq
<1>4. TypeOK'
  BY <1>1, <1>3, EmptySeq DEF TypeOK, Held, Values, Payloads
<1>5. MemoryAgrees'
  BY <1>2 DEF MemoryAgrees
<1>6. WireSpeaks'
  <2>1. LastWord(broker', wire', Status("online"))
    <3>1. 1 \in 1 .. Len(wire') /\ \A j \in 1 + 1 .. Len(wire') : FALSE
      BY <1>3
    <3> QED BY <1>3, <3>1 DEF LastWord
  <2>2. \A b \in Batteries : Silent(wire', Avail(b, "online"))
    BY <1>3, Topics DEF Silent
  <2> QED BY <1>2, <2>1, <2>2 DEF WireSpeaks
<1>7. ServingSpeaks'
  BY <1>2 DEF ServingSpeaks
<1>8. QueueSpeaks' /\ MemorySpeaks'
  BY <1>2 DEF QueueSpeaks, MemorySpeaks
<1>9. GoneIsOver'
  BY <1>1 DEF GoneIsOver, Waiting, Up
<1>10. LinkSpeaks'
  BY DEF LinkSpeaks, Up, Running
<1> QED BY <1>4, <1>5, <1>6, <1>7, <1>8, <1>9, <1>10

\* The announcement ends (_serve_connection).
LEMMA AnnouncedStep == ASSUME PresenceInv, Announced PROVE PresenceInv'
<1> USE DEF PresenceInv, Announced, memory
<1>1. discovered \subseteq Batteries
  BY DEF TypeOK
<1>2. PICK n \in Nat : n = Cardinality(discovered) /\ Bridge(n) \in Message
  BY <1>1, Sendable
<1>3. /\ wire' = <<Bridge(n)>> /\ wire' \in Seq(Message) /\ Len(wire') = 1 /\ wire'[1] = Bridge(n)
  BY <1>2
<1>4. wire' = wire \o wire'
  BY <1>3, ConcatEmptySeq
<1>5. TypeOK'
  BY <1>3 DEF TypeOK
<1>6. \A m : ~SameTopic(Bridge(n), m) => Silent(wire', m)
  BY <1>3 DEF Silent
<1>7. \A m : LastWord(broker, wire, m) /\ ~SameTopic(Bridge(n), m) => LastWord(broker, wire', m)
  BY <1>3, <1>4, <1>6, LastWordKept, EmptySeq
<1>8. LastWord(broker, wire', Bridge(n))
  <2>1. 1 \in 1 .. Len(wire') /\ \A j \in 1 + 1 .. Len(wire') : FALSE
    BY <1>3
  <2> QED BY <1>3, <2>1 DEF LastWord
<1>9. WireSpeaks'
  <2>1. WireSpeaks /\ Up
    BY DEF Up
  <2>2. LastWord(broker, wire', Status("online"))
    BY <1>7, <2>1, Topics DEF WireSpeaks
  <2>3. \A b \in Batteries : IF availability[b] = "none" THEN Silent(wire', Avail(b, "online"))
                             ELSE LastWord(broker, wire', Avail(b, availability[b]))
    BY <1>6, <1>7, <2>1, Topics DEF WireSpeaks
  <2>4. \A b \in discovered : LastWord(broker, wire', Discovery(b, "current"))
    BY <1>7, <2>1, Topics DEF WireSpeaks
  <2> QED BY <2>2, <2>3, <2>4 DEF WireSpeaks
<1>10. ServingSpeaks'
  BY <1>2, <1>6, <1>8, Topics DEF ServingSpeaks
<1>11. MemoryAgrees' BY DEF MemoryAgrees
<1>12. QueueSpeaks' /\ MemorySpeaks' BY KnowledgeKept
<1>13. GoneIsOver' BY DEF GoneIsOver, Waiting, Up
<1>14. LinkSpeaks' BY DEF LinkSpeaks, Up, Running
<1> QED BY <1>5, <1>9, <1>10, <1>11, <1>12, <1>13, <1>14

\* The oldest message of the connection lands.
LEMMA DeliverStep == ASSUME PresenceInv, Deliver PROVE PresenceInv'
<1> USE DEF PresenceInv, Deliver, memory
<1>1. /\ Up /\ wire \in Seq(Message) /\ wire # <<>> /\ Head(wire) \in Message
      /\ wire' \in Seq(Message) /\ broker \in Held
  BY BrokerTyped, HeadTailProperties DEF LinkSpeaks
<1>2. broker' \in Held
  BY <1>1, RetainTopics
<1>3. TypeOK'
  BY <1>1, <1>2 DEF TypeOK, Held, Values, Payloads
<1>4. \A m \in Message : LastWord(broker, wire, m) => LastWord(broker', wire', m)
  BY <1>1, LastWordArrives
<1>5. \A m : Silent(wire, m) => Silent(wire', m)
  BY <1>1, SilenceKept
<1>6. WireSpeaks'
  <2>1. LastWord(broker', wire', Status("online"))
    BY <1>1, <1>4, Sendable DEF WireSpeaks
  <2>2. ASSUME NEW b \in Batteries
        PROVE  IF availability[b] = "none" THEN Silent(wire', Avail(b, "online"))
               ELSE LastWord(broker', wire', Avail(b, availability[b]))
    <3>1. availability[b] \in {"none", "online", "offline"}
      BY DEF TypeOK
    <3> QED BY <1>1, <1>4, <1>5, <3>1, Sendable DEF WireSpeaks
  <2>3. \A b \in discovered : LastWord(broker', wire', Discovery(b, "current"))
    BY <1>1, <1>4, Sendable DEF WireSpeaks, TypeOK
  <2> QED BY <2>1, <2>2, <2>3 DEF WireSpeaks
<1>7. ServingSpeaks'
  <2>1. Bridge(Cardinality(discovered)) \in Message
    BY Sendable DEF TypeOK
  <2> QED BY <1>4, <1>5, <2>1 DEF ServingSpeaks
<1>8. MemoryAgrees' BY DEF MemoryAgrees
<1>9. QueueSpeaks' /\ MemorySpeaks' BY KnowledgeKept
<1>10. GoneIsOver'
  <2> SUFFICES ASSUME NEW b \in Batteries \ (present \cup lost), ~Waiting(b), availability[b] = "none"
               PROVE  /\ broker'.avail[b] # "online"
                      /\ \A i \in 1 .. Len(stale) : stale[i] # Avail(b, "online")
    BY <1>1 DEF GoneIsOver, Waiting, Up
  <2>1. Silent(wire, Avail(b, "online"))
    BY <1>1 DEF WireSpeaks
  <2>2. ~SameTopic(Head(wire), Avail(b, "online"))
    BY <1>1, <2>1, SilenceKept
  <2>3. ~(Head(wire).topic = "avail" /\ Head(wire).b = b)
    BY <2>2 DEF SameTopic, Avail
  <2>4. broker'.avail[b] = broker.avail[b]
    BY <1>1, <2>3, RetainTopics
  <2> QED BY <2>4 DEF GoneIsOver
<1>11. LinkSpeaks' BY <1>1 DEF LinkSpeaks, Up, Running
<1> QED BY <1>3, <1>6, <1>7, <1>8, <1>9, <1>10, <1>11

\* A message of a former connection lands.
LEMMA DeliverStaleStep == ASSUME PresenceInv, DeliverStale PROVE PresenceInv'
<1> USE DEF PresenceInv, DeliverStale, memory
<1>1. /\ ~Up /\ stale \in Seq(Message) /\ stale # <<>> /\ Head(stale) \in Message
      /\ stale' \in Seq(Message) /\ broker \in Held
  BY BrokerTyped, HeadTailProperties DEF LinkSpeaks
<1>2. broker' \in Held
  BY <1>1, RetainTopics
<1>3. TypeOK'
  BY <1>1, <1>2 DEF TypeOK, Held, Values, Payloads
<1>4. WireSpeaks' /\ ServingSpeaks'
  BY <1>1 DEF WireSpeaks, ServingSpeaks, Up
<1>5. MemoryAgrees' BY DEF MemoryAgrees
<1>6. QueueSpeaks' /\ MemorySpeaks' BY KnowledgeKept
<1>7. /\ Len(stale) \in Nat /\ 1 \in 1 .. Len(stale) /\ Head(stale) = stale[1]
      /\ \A i \in 1 .. Len(stale') : stale'[i] = stale[i + 1] /\ i + 1 \in 1 .. Len(stale)
  BY <1>1, HeadTailProperties, EmptySeq
<1>8. GoneIsOver'
  <2> SUFFICES ASSUME NEW b \in Batteries \ (present \cup lost), ~Waiting(b)
               PROVE  /\ broker'.avail[b] # "online"
                      /\ \A i \in 1 .. Len(stale') : stale'[i] # Avail(b, "online")
    BY <1>1 DEF GoneIsOver, Waiting, Up
  <2>1. /\ broker.avail[b] # "online"
        /\ \A i \in 1 .. Len(stale) : stale[i] # Avail(b, "online")
    BY <1>1 DEF GoneIsOver
  <2>2. CASE \E c \in Batteries, v \in {"online", "offline"} : Head(stale) = Avail(c, v)
    <3>1. PICK c \in Batteries, v \in {"online", "offline"} : Head(stale) = Avail(c, v)
      BY <2>2
    <3>2. c = b => v # "online"
      BY <1>7, <2>1, <3>1
    <3>3. Head(stale).topic = "avail" /\ Head(stale).b = c /\ Head(stale).value = v
      BY <3>1 DEF Avail
    <3>4. broker'.avail[b] = IF c = b THEN v ELSE broker.avail[b]
      BY <1>1, <3>3, RetainTopics
    <3> QED BY <1>7, <2>1, <3>2, <3>4
  <2>3. CASE Head(stale).topic # "avail"
    <3>1. broker'.avail[b] = broker.avail[b]
      BY <1>1, <2>3, RetainTopics
    <3> QED BY <1>7, <2>1, <3>1
  <2> QED BY <1>1, <2>2, <2>3, Kinds DEF Status, Bridge, Discovery
<1>9. LinkSpeaks'
  BY <1>1 DEF LinkSpeaks, Up, Running
<1> QED BY <1>3, <1>4, <1>5, <1>6, <1>8, <1>9

\* The status is "offline" and no byte of the old connection will land any
\* more; nothing else of what the broker holds moves.
LEMMA WillStep == ASSUME PresenceInv, WillFires PROVE PresenceInv'
<1> USE DEF PresenceInv, WillFires, memory
<1>1. ~Up /\ broker' \in Held /\ broker'.avail = broker.avail /\ broker'.status = "offline"
  BY BrokerTyped, WillHeld DEF LinkSpeaks
<1>2. TypeOK'
  BY <1>1, EmptySeq DEF TypeOK, Held, Values, Payloads
<1>3. WireSpeaks' /\ ServingSpeaks'
  BY <1>1 DEF WireSpeaks, ServingSpeaks, Up
<1>4. MemoryAgrees' BY DEF MemoryAgrees
<1>5. QueueSpeaks' /\ MemorySpeaks' BY KnowledgeKept
<1>6. GoneIsOver' BY <1>1 DEF GoneIsOver, Waiting, Up
<1>7. LinkSpeaks' BY <1>1 DEF LinkSpeaks, Up, Running
<1> QED BY <1>2, <1>3, <1>4, <1>5, <1>6, <1>7

\* While connected, nothing shows or will show a battery that is gone as
\* online, unless its "offline" is on the wire.
LEMMA GoneWhileUp ==
    ASSUME PresenceInv, Up, NEW b \in Batteries \ (present \cup lost), ~Waiting(b),
           b \notin Leaving
    PROVE  /\ broker.avail[b] # "online"
           /\ \A i \in 1 .. Len(wire) : wire[i] # Avail(b, "online")
<1> USE DEF PresenceInv
<1>1. availability[b] \in {"none", "offline"}
  BY DEF MemorySpeaks, TypeOK
<1>2. CASE availability[b] = "none"
  <2>1. Silent(wire, Avail(b, "online"))
    BY <1>2 DEF WireSpeaks
  <2> QED BY <1>2, <2>1, Topics DEF GoneIsOver, Silent
<1>3. CASE availability[b] = "offline"
  <2>1. LastWord(broker, wire, Avail(b, "offline"))
    BY <1>3 DEF WireSpeaks
  <2>2. wire \in Seq(Message) /\ DOMAIN wire = 1 .. Len(wire) /\ broker \in Held
    BY BrokerTyped, LenProperties
  <2>3. \A i \in 1 .. Len(wire) : wire[i] # Avail(b, "offline")
    BY <2>2 DEF Leaving, ToSet
  <2>4. Shows(broker, Avail(b, "offline")) /\ \A i \in 1 .. Len(wire) : ~SameTopic(wire[i], Avail(b, "offline"))
    BY <2>1, <2>3 DEF LastWord
  <2>5. broker.avail[b] = "offline"
    BY <2>2, <2>4, ShowsIsHolds
  <2> QED BY <2>4, <2>5, Topics
<1> QED BY <1>1, <1>2, <1>3

\* A broken link (_serve_connection).
LEMMA DropStep == ASSUME PresenceInv, Drop PROVE PresenceInv'
<1> USE DEF PresenceInv, Drop, memory
<1>1. /\ Up /\ ~Up' /\ stale = <<>> /\ wire \in Seq(Message) /\ stale' = wire
      /\ Leaving \subseteq Batteries /\ faults' \in 0..MaxFaults
  BY ConcatEmptySeq, PresenceAssumption DEF LinkSpeaks, TypeOK, Leaving, Up, Fault
<1>2. TypeOK'
  BY <1>1, EmptySeq DEF TypeOK
<1>3. WireSpeaks' /\ ServingSpeaks'
  BY <1>1 DEF WireSpeaks, ServingSpeaks
<1>4. MemoryAgrees' BY DEF MemoryAgrees
<1>5. QueueSpeaks' /\ MemorySpeaks' BY KnowledgeKept
<1>6. GoneIsOver'
  BY <1>1, GoneWhileUp DEF GoneIsOver, Waiting
<1>7. LinkSpeaks' BY <1>1 DEF LinkSpeaks, Up, Running
<1> QED BY <1>2, <1>3, <1>4, <1>5, <1>6, <1>7

\* A broker that comes back without its values.
LEMMA BrokerRestartStep == ASSUME PresenceInv, BrokerRestart PROVE PresenceInv'
<1> USE DEF PresenceInv, BrokerRestart, memory
<1>1. /\ Blank \in Held /\ Blank.status = "none" /\ \A b \in Batteries : Blank.avail[b] = "none"
      /\ Leaving \subseteq Batteries /\ faults' \in 0..MaxFaults
  <2>1. 0 \in 0..Cardinality(Batteries)
    BY PresenceAssumption, FS_CardinalityType
  <2> QED BY <2>1, PresenceAssumption DEF Blank, Held, Values, Payloads, Leaving, Fault, TypeOK
<1>2. TypeOK'
  BY <1>1, EmptySeq DEF TypeOK, Held, Values, Payloads
<1>3. WireSpeaks' /\ ServingSpeaks'
  BY DEF WireSpeaks, ServingSpeaks, Up
<1>4. MemoryAgrees' BY DEF MemoryAgrees
<1>5. QueueSpeaks' /\ MemorySpeaks' BY KnowledgeKept
<1>6. GoneIsOver' BY <1>1 DEF GoneIsOver
<1>7. LinkSpeaks' BY <1>1 DEF LinkSpeaks, Up, Running
<1> QED BY <1>2, <1>3, <1>4, <1>5, <1>6, <1>7

\* A process that ends knows nothing, and every battery counts as lost.
LEMMA ForgetStep ==
    ASSUME PresenceInv, Forget, phase' \in {"parting", "stopped"}, Fault("process"),
           stale' \in Seq(Message), willDue' \in BOOLEAN, UNCHANGED <<memory, unheard, broker>>,
           phase' = "stopped" /\ ~willDue' /\ ~unheard' => stale' = <<>> /\ broker.status # "online"
    PROVE  PresenceInv'
<1> USE DEF PresenceInv, Forget, memory
<1>1. ~Up' BY DEF Up
<1>2. faults' \in 0..MaxFaults
  BY PresenceAssumption DEF Fault, TypeOK
<1>3. TypeOK'
  <2>1. queue' \in Seq(Event) /\ Len(queue') = 0 /\ wire' \in Seq(Message)
    BY EmptySeq
  <2> QED BY <1>2, <2>1, PresenceAssumption DEF TypeOK
<1>4. WireSpeaks' /\ ServingSpeaks'
  BY <1>1 DEF WireSpeaks, ServingSpeaks
<1>5. MemoryAgrees' BY DEF MemoryAgrees
<1>6. QueueSpeaks' /\ MemorySpeaks'
  BY DEF QueueSpeaks, MemorySpeaks
<1>7. GoneIsOver' BY DEF GoneIsOver
<1>8. LinkSpeaks' BY <1>1 DEF LinkSpeaks, Up, Running
<1> QED BY <1>3, <1>4, <1>5, <1>6, <1>7, <1>8

\* A stop while connected (_run).
LEMMA StopStep == ASSUME PresenceInv, Stop PROVE PresenceInv'
<1>1. stale' \in Seq(Message) /\ willDue' \in BOOLEAN
  BY DEF Stop, PresenceInv, TypeOK
<1> QED BY <1>1, ForgetStep DEF Stop

\* A stop between two connections (stop).
LEMMA StopAsleepStep == ASSUME PresenceInv, StopAsleep PROVE PresenceInv'
<1>1. stale' \in Seq(Message) /\ willDue' \in BOOLEAN
  BY DEF StopAsleep, PresenceInv, TypeOK
<1>2. ~willDue /\ ~unheard => stale = <<>> /\ broker.status # "online"
  BY DEF StopAsleep, PresenceInv, LinkSpeaks, Up
<1> QED BY <1>1, <1>2, ForgetStep DEF StopAsleep

\* A crash.
LEMMA CrashStep == ASSUME PresenceInv, Crash PROVE PresenceInv'
<1>1. stale' \in Seq(Message) /\ willDue' \in BOOLEAN
  BY DEF Crash, PresenceInv, TypeOK
<1> QED BY <1>1, ForgetStep DEF Crash

\* What a process that has ended, or one that starts, leaves as it is.
LEMMA EndedStep ==
    ASSUME PresenceInv, ~Up, ~Up', lost = Batteries, broker' \in Held, stale' \in Seq(Message),
           phase' \in {"down", "stopped"}, willDue' \in BOOLEAN, unheard' \in BOOLEAN,
           faults' \in 0..MaxFaults,
           UNCHANGED <<present, queue, memory, wire, lost>>,
           phase' = "stopped" => present = {} /\ queue = <<>>,
           ~willDue' /\ ~unheard' => stale' = <<>> /\ broker'.status # "online"
    PROVE  PresenceInv'
<1> USE DEF PresenceInv, memory
<1>1. TypeOK'
  BY DEF TypeOK, Held, Values, Payloads
<1>2. WireSpeaks' /\ ServingSpeaks'
  BY DEF WireSpeaks, ServingSpeaks
<1>3. MemoryAgrees' BY DEF MemoryAgrees
<1>4. QueueSpeaks' /\ MemorySpeaks' BY KnowledgeKept
<1>5. GoneIsOver' BY DEF GoneIsOver
<1>6. LinkSpeaks' BY DEF LinkSpeaks, Running
<1> QED BY <1>1, <1>2, <1>3, <1>4, <1>5, <1>6

\* The parting publish lands (_publish_offline).
LEMMA PartStep == ASSUME PresenceInv, Part PROVE PresenceInv'
<1>1. /\ ~Up /\ ~Up' /\ lost = Batteries /\ present = {} /\ queue = <<>>
      /\ willDue \in BOOLEAN /\ unheard \in BOOLEAN /\ faults \in 0..MaxFaults
      /\ broker \in Held
  BY BrokerTyped DEF Part, Up, PresenceInv, LinkSpeaks, Running, TypeOK
<1>2. broker' \in Held /\ broker'.status = "offline"
  <2>1. Status("offline") \in Message /\ Status("offline").topic = "status"
        /\ Status("offline").value = "offline"
    BY Sendable DEF Status
  <2> QED BY <1>1, <2>1, RetainTopics DEF Part
<1>3. stale' = <<>> /\ stale' \in Seq(Message) /\ phase' = "stopped"
  BY EmptySeq DEF Part
<1> QED BY <1>1, <1>2, <1>3, EndedStep DEF Part

\* The parting publish fails and is suppressed (_run).
LEMMA PartUnheardStep == ASSUME PresenceInv, PartUnheard PROVE PresenceInv'
<1>1. /\ ~Up /\ ~Up' /\ lost = Batteries /\ present = {} /\ queue = <<>>
      /\ broker \in Held /\ stale \in Seq(Message)
  BY BrokerTyped DEF PartUnheard, Up, PresenceInv, LinkSpeaks, Running
<1>2. faults' \in 0..MaxFaults
  BY PresenceAssumption DEF PartUnheard, Fault, PresenceInv, TypeOK
<1> QED BY <1>1, <1>2, EndedStep DEF PartUnheard

\* A new process (start).
LEMMA RestartStep == ASSUME PresenceInv, Restart PROVE PresenceInv'
<1>1. /\ ~Up /\ ~Up' /\ lost = Batteries
      /\ willDue \in BOOLEAN /\ unheard \in BOOLEAN /\ faults \in 0..MaxFaults
      /\ broker \in Held
  BY BrokerTyped DEF Restart, Up, PresenceInv, LinkSpeaks, Running, TypeOK
<1>2. stale' = <<>> /\ stale' \in Seq(Message) /\ phase' = "down"
  BY EmptySeq DEF Restart
<1>3. ~willDue /\ ~unheard => broker.status # "online"
  BY <1>1 DEF Restart, PresenceInv, LinkSpeaks
<1> QED BY <1>1, <1>2, <1>3, EndedStep DEF Restart

\* The invariant holds initially.
LEMMA PresenceStart == ASSUME Init PROVE PresenceInv
<1> USE DEF Init
<1>1. 0 \in 0..Cardinality(Batteries) /\ 0 \in 0..MaxFaults /\ 0 <= QueueMax
  BY PresenceAssumption, FS_CardinalityType
<1>2. broker \in Held /\ broker.status = "none" /\ \A b \in Batteries : broker.avail[b] = "none"
  BY <1>1 DEF Blank, Held, Values, Payloads
<1>3. TypeOK
  BY <1>1, <1>2, EmptySeq DEF TypeOK, Held, Values, Payloads
<1>4. MemoryAgrees BY DEF MemoryAgrees
<1>5. WireSpeaks /\ ServingSpeaks BY DEF WireSpeaks, ServingSpeaks, Up
<1>6. QueueSpeaks /\ MemorySpeaks BY DEF QueueSpeaks, MemorySpeaks
<1>7. GoneIsOver BY <1>2 DEF GoneIsOver
<1>8. LinkSpeaks BY <1>2 DEF LinkSpeaks, Up, Running
<1> QED BY <1>3, <1>4, <1>5, <1>6, <1>7, <1>8 DEF PresenceInv

\* A stuttering step keeps the invariant.
LEMMA PresenceStutters == ASSUME PresenceInv, UNCHANGED vars PROVE PresenceInv'
<1> USE DEF PresenceInv, vars, memory, link
<1>1. TypeOK' BY DEF TypeOK
<1>2. MemoryAgrees' BY DEF MemoryAgrees
<1>3. WireSpeaks' /\ ServingSpeaks' BY WireKept
<1>4. QueueSpeaks' /\ MemorySpeaks' BY KnowledgeKept
<1>5. GoneIsOver' BY DEF GoneIsOver, Waiting, Up
<1>6. LinkSpeaks' BY DEF LinkSpeaks, Up, Running
<1> QED BY <1>1, <1>2, <1>3, <1>4, <1>5, <1>6

\* The invariant holds of every behaviour.
LEMMA PresenceHolds == Spec => []PresenceInv
<1>1. Init => PresenceInv
  BY PresenceStart
<1>2. PresenceInv /\ [Next]_vars => PresenceInv'
  <2> SUFFICES ASSUME PresenceInv, [Next]_vars PROVE PresenceInv'
    OBVIOUS
  <2>1. CASE \E b \in Batteries : Poll(b) \/ Evict(b) \/ IntervalPasses(b)
    BY <2>1, PollStep, EvictStep, IntervalStep
  <2>2. CASE HandleEvent BY <2>2, HandleEventStep
  <2>3. CASE Connect BY <2>3, ConnectStep
  <2>4. CASE Announced BY <2>4, AnnouncedStep
  <2>5. CASE Deliver BY <2>5, DeliverStep
  <2>6. CASE DeliverStale BY <2>6, DeliverStaleStep
  <2>7. CASE WillFires BY <2>7, WillStep
  <2>8. CASE Drop BY <2>8, DropStep
  <2>9. CASE BrokerRestart BY <2>9, BrokerRestartStep
  <2>10. CASE Stop BY <2>10, StopStep
  <2>11. CASE Part BY <2>11, PartStep
  <2>12. CASE PartUnheard BY <2>12, PartUnheardStep
  <2>13. CASE StopAsleep BY <2>13, StopAsleepStep
  <2>14. CASE Crash BY <2>14, CrashStep
  <2>15. CASE Restart BY <2>15, RestartStep
  <2>16. CASE UNCHANGED vars BY <2>16, PresenceStutters
  <2> QED BY <2>1, <2>2, <2>3, <2>4, <2>5, <2>6, <2>7, <2>8, <2>9, <2>10, <2>11, <2>12,
            <2>13, <2>14, <2>15, <2>16 DEF Next
<1> QED BY <1>1, <1>2, PTL DEF Spec

-----------------------------------------------------------------------------
(* Theorems.                                                                *)

\* Every variable keeps its type: the queue never outgrows its bound, only
\* known topics and values reach the broker, and the count is never more than
\* there are batteries.
THEOREM TypeCorrect == Spec => []TypeOK
<1>1. PresenceInv => TypeOK BY DEF PresenceInv
<1> QED BY <1>1, PresenceHolds, PTL

\* The retained status is online while the service serves, and not after it
\* has stopped and its will is spent, whatever broke, restarted or crashed on
\* the way (_announce, the will of _run, _publish_offline).
THEOREM StatusFollows == Spec => []StatusIsTrue
<1>1. PresenceInv => StatusIsTrue
  <2> SUFFICES ASSUME PresenceInv PROVE StatusIsTrue
    OBVIOUS
  <2> USE DEF PresenceInv
  <2>1. ASSUME phase = "serving" PROVE broker.status = "online"
    <3>1. LastWord(broker, wire, Status("online")) /\ Silent(wire, Status("online"))
      BY <2>1 DEF WireSpeaks, ServingSpeaks, Up
    <3>2. \A i \in 1 .. Len(wire) : wire[i] # Status("online")
      BY <3>1 DEF Silent, SameTopic, Status
    <3>3. Shows(broker, Status("online"))
      BY <3>1, <3>2 DEF LastWord
    <3> QED BY <3>3, BrokerTyped, ShowsIsHolds
  <2>2. phase = "stopped" /\ ~willDue /\ ~unheard => broker.status # "online"
    BY DEF LinkSpeaks, Up
  <2> QED BY <2>1, <2>2 DEF StatusIsTrue
<1> QED BY <1>1, PresenceHolds, PTL

\* A set of natural numbers that is not empty has a least element.
LEMMA LeastThereIs ==
    ASSUME NEW S \in SUBSET Nat, S # {}
    PROVE  \E n \in S : \A k \in S : n <= k
<1>1. PICK i \in S : \A j \in S : ~ (<<j, i>> \in OpToRel(<, Nat))
  BY WFMin, NatLessThanWellFounded
<1>2. ASSUME NEW j \in S PROVE i <= j
  <2>1. <<j, i>> \in Nat \X Nat /\ <<j, i>>[1] = j /\ <<j, i>>[2] = i
    OBVIOUS
  <2>2. j < i => <<j, i>> \in {ss \in Nat \X Nat : ss[1] < ss[2]}
    BY <2>1
  <2>3. ~ (j < i)
    BY <2>2, <1>1 DEF OpToRel
  <2> QED BY <2>3
<1> QED BY <1>2

\* A set of indices that is not empty has a greatest element.
LEMMA GreatestThereIs ==
    ASSUME NEW n \in Nat, NEW S \in SUBSET (1 .. n), S # {}
    PROVE  \E i \in S : \A j \in S : j <= i
<1> DEFINE T == {n - i : i \in S}
<1>1. T \in SUBSET Nat /\ T # {}
  <2>1. ASSUME NEW m \in T PROVE m \in Nat
    <3>1. PICK j \in S : m = n - j
      OBVIOUS
    <3>2. j \in 1 .. n
      OBVIOUS
    <3> QED BY <3>1, <3>2
  <2>2. PICK j \in S : TRUE
    OBVIOUS
  <2>3. n - j \in T
    OBVIOUS
  <2> HIDE DEF T
  <2> QED BY <2>1, <2>3
<1>2. PICK k \in T : \A m \in T : k <= m
  <2> HIDE DEF T
  <2> QED BY <1>1, LeastThereIs
<1>3. PICK i \in S : k = n - i
  BY <1>2
<1>4. ASSUME NEW j \in S PROVE j <= i
  <2>1. n - j \in T
    OBVIOUS
  <2>2. k <= n - j
    BY <1>2, <2>1
  <2>3. i \in 1 .. n /\ j \in 1 .. n
    OBVIOUS
  <2> QED BY <1>3, <2>2, <2>3
<1> QED BY <1>4

\* A battery that is gone and still shown as online has its "offline" queued
\* or on the wire, unless a full queue, a broken link or the end of the
\* process took it (_put_nowait, _mark_offline).
THEOREM OfflineFollows == Spec => []OfflineIsComing
<1>1. PresenceInv => OfflineIsComing
  <2> SUFFICES ASSUME PresenceInv, NEW b \in Batteries \ present, broker.avail[b] = "online",
                      b \notin lost, b \notin Leaving
               PROVE  [kind |-> "remove", b |-> b] \in ToSet(queue)
    BY DEF OfflineIsComing
  <2> USE DEF PresenceInv
  <2>1. Waiting(b)
    BY GoneWhileUp DEF GoneIsOver
  <2>2. queue \in Seq(Event) /\ Len(queue) \in Nat /\ DOMAIN queue = 1 .. Len(queue)
    BY LenProperties DEF TypeOK
  <2>3. PICK i \in 1 .. Len(queue) :
          queue[i].b = b /\ \A j \in i + 1 .. Len(queue) : queue[j].b # b
    <3> DEFINE S == {k \in 1 .. Len(queue) : queue[k].b = b}
    <3>1. S # {} /\ S \in SUBSET (1 .. Len(queue))
      BY <2>1, <2>2 DEF Waiting
    <3>2. PICK i \in S : \A j \in S : j <= i
      BY <2>2, <3>1, GreatestThereIs
    <3>3. i \in 1 .. Len(queue) /\ queue[i].b = b
      BY <3>2
    <3>4. ASSUME NEW j \in i + 1 .. Len(queue) PROVE queue[j].b # b
      <4>1. j \in 1 .. Len(queue) /\ ~(j <= i)
        BY <2>2, <3>3
      <4> QED BY <3>2, <4>1
    <3> QED BY <3>3, <3>4
  <2>4. queue[i] \in Event /\ queue[i].kind # "poll"
    BY <2>2, <2>3, ElementOfSeq DEF QueueSpeaks
  <2>5. queue[i] = [kind |-> "remove", b |-> b]
    BY <2>3, <2>4 DEF Event
  <2> QED BY <2>2, <2>5 DEF ToSet
<1> QED BY <1>1, PresenceHolds, PTL

\* Once nothing is under way, the broker shows every battery heard on this
\* connection as the emulator knows it, and their count and their discovery
\* when all were heard (_handle_ct002_event, _mark_offline, _announce).
THEOREM RetainedFollows == Spec => []RetainedIsTrue
<1>1. PresenceInv => RetainedIsTrue
  <2> SUFFICES ASSUME PresenceInv, Quiet PROVE RetainedIsTrue
    BY DEF RetainedIsTrue
  <2> USE DEF PresenceInv
  <2>1. /\ wire = <<>> /\ queue = <<>> /\ phase = "serving" /\ Up /\ broker \in Held
        /\ \A b \in Batteries : ~Waiting(b)
    BY BrokerTyped DEF Quiet, Up, Waiting
  <2>2. ASSUME NEW b \in Batteries, availability[b] # "none"
        PROVE  broker.avail[b] = availability[b]
    <3>1. availability[b] \in {"online", "offline"}
      BY <2>2 DEF TypeOK
    <3>2. Shows(broker, Avail(b, availability[b]))
      BY <2>1, <2>2, LastWordShown DEF WireSpeaks
    <3> QED BY <2>1, <3>1, <3>2, ShowsIsHolds
  <2>3. ASSUME NEW b \in Batteries, availability[b] # "none", b \notin lost
        PROVE  broker.avail[b] = IF b \in present THEN "online" ELSE "offline"
    BY <2>1, <2>2, <2>3 DEF MemorySpeaks, TypeOK
  <2>4. ASSUME present \subseteq discovered, lost \cap discovered = {}
        PROVE  /\ broker.count = Cardinality(present)
               /\ \A b \in present : broker.discovery[b] = "current"
    <3>1. discovered = present
      BY <2>1, <2>4 DEF MemorySpeaks, MemoryAgrees
    <3>2. Shows(broker, Bridge(Cardinality(present)))
      BY <2>1, <3>1, LastWordShown DEF ServingSpeaks
    <3>3. \A b \in present : b \in Batteries /\ Shows(broker, Discovery(b, "current"))
      BY <2>1, <3>1, LastWordShown DEF WireSpeaks, TypeOK
    <3>4. Cardinality(present) \in 0..Cardinality(Batteries)
      BY Sendable DEF TypeOK
    <3> QED BY <2>1, <3>2, <3>3, <3>4, ShowsIsHolds
  <2> QED BY <2>3, <2>4 DEF RetainedIsTrue
<1> QED BY <1>1, PresenceHolds, PTL
=============================================================================
