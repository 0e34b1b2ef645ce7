--------------------------- MODULE DevicesProofs ---------------------------
(***************************************************************************)
(* A device and the loop that runs the devices.                            *)
(*                                                                         *)
(* The Shelly, for any batteries, ports, entities and readings: a meter's  *)
(* values never outlive their connection, a battery counted as present is  *)
(* watched for silence, and a reply that was not waited out brings news.   *)
(*                                                                         *)
(* The supervisor, for any number of meters, devices and saves: the types, *)
(* that a signalled restart is kept, and that a cycle stands alone.        *)
(***************************************************************************)
EXTENDS Shelly, Supervisor, SequenceTheorems, TLAPS

(* The meter                                                                 *)

Partial == UNION {[D -> States] : D \in SUBSET Tracked}
Events == [states : Partial, again : SUBSET Tracked]
Fetches == [at : 0 .. Len(Entities), told : States \cup {NoAnswer}]

MeterTyped ==
    /\ state \in [Tracked -> States]
    /\ since \in [Tracked -> SUBSET Readings]
    /\ value \in [Tracked -> Readings \cup {NoValue}]
    /\ frames \in Seq(Events)
    /\ fetch \in Fetches

\* While the link is down there is nothing: no value, no event under way, no
\* fetch.  While it is up, whatever is on its way to the client or has arrived
\* there was a state of the entity since the link was opened.
DownIsEmpty ==
    /\ link = "down" => /\ frames = <<>> /\ ~Fetching /\ ~subscribed
                        /\ \A e \in Tracked : value[e] = NoValue
    /\ subscribed => link # "down"

Honest(e, s) == s \in Readings => s \in since[e]
HonestEvent(event) == \A e \in DOMAIN event.states : Honest(e, event.states[e])

Sourced ==
    /\ link # "down" => \A e \in Tracked : Honest(e, state[e])
    /\ \A i \in 1 .. Len(frames) : HonestEvent(frames[i])
    /\ Fetching /\ fetch.told # NoAnswer => Honest(Entities[fetch.at], fetch.told)
    /\ NothingResurrected

MeterInv == MeterTyped /\ DownIsEmpty /\ Sourced

LEMMA EntitiesTracked ==
    /\ Len(Entities) \in Nat
    /\ \A i \in 1 .. Len(Entities) : Entities[i] \in Tracked
BY PushMeterAssumption DEF Tracked, ToSet

LEMMA FullEvents ==
    ASSUME NEW D \in SUBSET Tracked, NEW f \in [D -> States], NEW A \in SUBSET Tracked
    PROVE  /\ Event(f, A) \in Events
           /\ Event(f, A).states = f
BY DEF Event, Events, Partial

LEMMA AnEvent ==
    ASSUME NEW event \in Events
    PROVE  /\ DOMAIN event.states \in SUBSET Tracked
           /\ event.states \in [DOMAIN event.states -> States]
           /\ event.again \in SUBSET Tracked
BY DEF Events, Partial

LEMMA Appended ==
    ASSUME MeterTyped, Sourced, NEW event \in Events, HonestEvent(event),
           frames' = Append(frames, event)
    PROVE  /\ frames' \in Seq(Events)
           /\ \A i \in 1 .. Len(frames') : HonestEvent(frames'[i])
<1>1. frames' \in Seq(Events) /\ Len(frames') = Len(frames) + 1
  BY AppendProperties DEF MeterTyped
<1>2. \A i \in 1 .. Len(frames') : frames'[i] \in {event} \cup {frames[j] : j \in 1 .. Len(frames)}
  BY <1>1, AppendProperties DEF MeterTyped
<1> QED BY <1>1, <1>2 DEF Sourced

LEMMA SensorStep == ASSUME MeterInv, SensorChanges PROVE MeterInv'
<1>1. PICK e \in Tracked, s \in States :
        /\ state' = [state EXCEPT ![e] = s]
        /\ since' = [since EXCEPT ![e] = @ \cup ({s} \cap Readings)]
        /\ frames' = Sent(Event([x \in {e} |-> s], {}))
  BY DEF SensorChanges
<1>2. UNCHANGED <<link, subscribed, broken, connected, value, ready, fetch, arrived>>
  BY DEF SensorChanges, client
<1>3. /\ state' \in [Tracked -> States]
      /\ since' \in [Tracked -> SUBSET Readings]
      /\ \A x \in Tracked : since[x] \subseteq since'[x]
      /\ s \in Readings => s \in since'[e]
  BY <1>1 DEF MeterInv, MeterTyped
<1>e. Event([x \in {e} |-> s], {}) \in Events /\ Event([x \in {e} |-> s], {}).states = [x \in {e} |-> s]
  BY FullEvents
<1>4. /\ frames' \in Seq(Events)
      /\ \A i \in 1 .. Len(frames') : \/ frames'[i] = Event([x \in {e} |-> s], {})
                                      \/ i \in 1 .. Len(frames) /\ frames'[i] = frames[i]
  <2> DEFINE told == Event([x \in {e} |-> s], {})
  <2>1. told \in Events BY <1>e
  <2>2. frames' = frames \/ frames' = Append(frames, told) BY <1>1 DEF Sent
  <2> HIDE DEF told
  <2>3. frames \in Seq(Events) BY DEF MeterInv, MeterTyped
  <2>4. /\ frames' \in Seq(Events)
        /\ \A i \in 1 .. Len(frames') : \/ frames'[i] = told
                                        \/ i \in 1 .. Len(frames) /\ frames'[i] = frames[i]
    <3>1. CASE frames' = Append(frames, told) BY <2>1, <2>3, <3>1, AppendProperties
    <3>2. CASE frames' = frames BY <2>3, <3>2
    <3> QED BY <2>2, <3>1, <3>2
  <2> QED BY <2>4 DEF told
<1>5. MeterTyped'
  BY <1>2, <1>3, <1>4, Zenon DEF MeterInv, MeterTyped
<1>6. DownIsEmpty'
  <2>1. link = "down" => frames' = frames BY <1>1 DEF MeterInv, DownIsEmpty, Sent
  <2> QED BY <1>2, <2>1 DEF MeterInv, DownIsEmpty, Fetching
<1>7. ASSUME link' # "down", NEW x \in Tracked, state'[x] \in Readings PROVE state'[x] \in since'[x]
  BY <1>1, <1>2, <1>3, <1>7 DEF MeterInv, MeterTyped, Sourced, Honest
<1>8. ASSUME NEW i \in 1 .. Len(frames'), NEW x \in DOMAIN frames'[i].states,
             frames'[i].states[x] \in Readings
      PROVE  frames'[i].states[x] \in since'[x]
  <2>1. CASE frames'[i] = Event([y \in {e} |-> s], {})
    BY <2>1, <1>3, <1>8, <1>e
  <2>2. CASE i \in 1 .. Len(frames) /\ frames'[i] = frames[i]
    <3>1. frames[i] \in Events BY <2>2, ElementOfSeq DEF MeterInv, MeterTyped
    <3>2. x \in Tracked BY <2>2, <3>1, AnEvent
    <3>3. frames[i].states[x] \in since[x]
      BY <2>2, <1>8 DEF MeterInv, Sourced, HonestEvent, Honest
    <3> QED BY <2>2, <3>2, <3>3, <1>3
  <2> QED BY <2>1, <2>2, <1>4
<1>9. Fetching' /\ fetch'.told # NoAnswer => (fetch'.told \in Readings => fetch'.told \in since'[Entities[fetch'.at]])
  <2>1. fetch.at > 0 => Entities[fetch.at] \in Tracked
    BY EntitiesTracked DEF MeterInv, MeterTyped, Fetches
  <2> QED BY <2>1, <1>2, <1>3 DEF MeterInv, Sourced, Honest, Fetching
<1>10. NothingResurrected'
  BY <1>2, <1>3 DEF MeterInv, Sourced, NothingResurrected
<1>11. Sourced'
  BY <1>7, <1>8, <1>9, <1>10 DEF Sourced, Honest, HonestEvent
<1> QED BY <1>5, <1>6, <1>11 DEF MeterInv

LEMMA UnderWay ==
    ASSUME MeterInv, NEW event \in Events, HonestEvent(event),
           link # "down", link' # "down",
           frames' = Append(frames, event),
           UNCHANGED <<state, since, value, fetch>>
    PROVE  MeterInv'
<1>1. frames' \in Seq(Events) /\ \A i \in 1 .. Len(frames') : HonestEvent(frames'[i])
  BY Appended DEF MeterInv
<1>2. MeterTyped' BY <1>1 DEF MeterInv, MeterTyped
<1>3. DownIsEmpty' BY DEF MeterInv, DownIsEmpty
<1>4. Sourced'
  BY <1>1 DEF MeterInv, Sourced, HonestEvent, Honest, NothingResurrected, Fetching
<1> QED BY <1>2, <1>3, <1>4 DEF MeterInv

LEMMA ServerStep ==
    ASSUME MeterInv, SensorReports \/ Subscribes \/ SubscriptionFails \/ Breaks
    PROVE  MeterInv'
<1>1. CASE SensorReports
  <2>1. PICK e \in Loaded : frames' = Append(frames, Event(<<>>, {e}))
    BY <1>1 DEF SensorReports
  <2>2. <<>> \in [{} -> States] /\ {e} \in SUBSET Tracked
    BY DEF Loaded
  <2>3. Event(<<>>, {e}) \in Events /\ Event(<<>>, {e}).states = <<>>
    BY <2>2, FullEvents
  <2>4. HonestEvent(Event(<<>>, {e}))
    BY <2>3 DEF HonestEvent
  <2> QED BY <1>1, <2>1, <2>3, <2>4, UnderWay DEF SensorReports, client, MeterInv, DownIsEmpty
<1>2. CASE Subscribes
  <2> DEFINE first == [e \in Loaded |-> state[e]]
  <2>1. first \in [Loaded -> States] /\ Loaded \in SUBSET Tracked /\ {} \in SUBSET Tracked
    BY DEF Loaded, MeterInv, MeterTyped
  <2>2. Event(first, {}) \in Events /\ Event(first, {}).states = first
    BY <2>1, FullEvents
  <2>3. HonestEvent(Event(first, {}))
    BY <1>2, <2>1, <2>2 DEF Subscribes, HonestEvent, MeterInv, Sourced
  <2> HIDE DEF first
  <2>4. frames' = Append(frames, Event(first, {}))
    BY <1>2 DEF Subscribes, first
  <2> QED BY <1>2, <2>2, <2>3, <2>4, UnderWay DEF Subscribes, client
<1>3. CASE SubscriptionFails
  BY <1>3 DEF SubscriptionFails, server, MeterInv, MeterTyped, DownIsEmpty, Sourced,
     NothingResurrected, HonestEvent, Honest, Fetching
<1>4. CASE Breaks
  BY <1>4 DEF Breaks, client, MeterInv, MeterTyped, DownIsEmpty, Sourced,
     NothingResurrected, HonestEvent, Honest, Fetching
<1> QED BY <1>1, <1>2, <1>3, <1>4

LEMMA Learned ==
    ASSUME MeterInv, NEW event \in Events, HonestEvent(event), Learn(event.states),
           UNCHANGED since
    PROVE  /\ value' \in [Tracked -> Readings \cup {NoValue}]
           /\ NothingResurrected'
<1>1. DOMAIN event.states \in SUBSET Tracked /\ event.states \in [DOMAIN event.states -> States]
  BY AnEvent
<1>2. \A e \in Tracked : value'[e] \in {NoValue} \cup since[e] \cup ({value[e]} \cap since[e])
  BY <1>1 DEF Learn, ValueOf, HonestEvent, Honest, MeterInv, Sourced, NothingResurrected
<1>3. value' \in [Tracked -> Readings \cup {NoValue}]
  BY <1>1 DEF Learn, ValueOf, MeterInv, MeterTyped
<1>4. NothingResurrected' BY <1>2 DEF NothingResurrected
<1> QED BY <1>3, <1>4

LEMMA FetchNext ==
    ASSUME MeterInv, NEW f, FetchMoves(f, fetch.at + 1)
    PROVE  fetch' \in Fetches /\ fetch'.told = NoAnswer
<1>1. fetch.at \in Nat BY EntitiesTracked DEF MeterInv, MeterTyped, Fetches
<1>2. CASE fetch' = NoFetch BY <1>2, EntitiesTracked DEF NoFetch, Fetches
<1>3. CASE \E i \in fetch.at + 1 .. Len(Entities) : fetch' = [at |-> i, told |-> NoAnswer]
  BY <1>1, <1>3, EntitiesTracked DEF Fetches
<1> QED BY <1>2, <1>3 DEF FetchMoves

LEMMA LinkStep ==
    ASSUME MeterInv, Dials \/ Authenticates \/ Drops
    PROVE  MeterInv'
<1>1. CASE Dials
  <2>1. since' \in [Tracked -> SUBSET Readings] BY <1>1 DEF Dials
  <2>2. MeterTyped' BY <1>1, <2>1 DEF Dials, client, MeterInv, MeterTyped
  <2>3. DownIsEmpty' BY <1>1 DEF Dials, client, MeterInv, DownIsEmpty
  <2>4. frames' = <<>> /\ ~Fetching' /\ \A e \in Tracked : value'[e] = NoValue
    BY <1>1 DEF Dials, client, MeterInv, DownIsEmpty, Fetching
  <2>5. \A e \in Tracked : state'[e] \in Readings => state'[e] \in since'[e]
    BY <1>1 DEF Dials
  <2>6. Sourced' BY <2>4, <2>5 DEF Sourced, Honest, NothingResurrected
  <2> QED BY <2>2, <2>3, <2>6 DEF MeterInv
<1>2. CASE Authenticates
  <2>1. fetch' \in Fetches /\ fetch'.told = NoAnswer
    BY <1>2, EntitiesTracked, PushMeterAssumption, EmptySeq, LenProperties DEF Authenticates, Fetches
  <2>2. MeterTyped' BY <1>2, <2>1 DEF Authenticates, MeterInv, MeterTyped
  <2>3. DownIsEmpty' BY <1>2 DEF Authenticates, MeterInv, DownIsEmpty
  <2>4. Sourced'
    BY <1>2, <2>1 DEF Authenticates, MeterInv, Sourced, HonestEvent, Honest, NothingResurrected
  <2> QED BY <2>2, <2>3, <2>4 DEF MeterInv
<1>3. CASE Drops
  <2>1. fetch' \in Fetches /\ ~Fetching'
    BY <1>3, EntitiesTracked DEF Drops, NoFetch, Fetches, Fetching
  <2>2. value' \in [Tracked -> Readings \cup {NoValue}] /\ \A e \in Tracked : value'[e] = NoValue
    BY <1>3 DEF Drops
  <2>3. MeterTyped' BY <1>3, <2>1, <2>2 DEF Drops, MeterInv, MeterTyped
  <2>4. DownIsEmpty' BY <1>3, <2>1, <2>2 DEF Drops, DownIsEmpty
  <2>5. Sourced' BY <1>3, <2>1, <2>2 DEF Drops, Sourced, NothingResurrected
  <2> QED BY <2>3, <2>4, <2>5 DEF MeterInv
<1> QED BY <1>1, <1>2, <1>3

LEMMA EventStep == ASSUME MeterInv, EventArrives PROVE MeterInv'
<1>1. frames \in Seq(Events) /\ frames # <<>> /\ frames' = Tail(frames)
  BY DEF MeterInv, MeterTyped, EventArrives
<1>2. /\ frames' \in Seq(Events) /\ Head(frames) = frames[1] /\ Len(frames) \in Nat \ {0}
      /\ Len(frames') = Len(frames) - 1
      /\ \A i \in 1 .. Len(frames') : frames'[i] = frames[i + 1]
  BY <1>1, HeadTailProperties, EmptySeq, LenProperties
<1>3. Head(frames) \in Events /\ HonestEvent(Head(frames))
  BY <1>1, <1>2, ElementOfSeq DEF MeterInv, Sourced
<1>4. UNCHANGED <<link, subscribed, state, fetch, since>> /\ Learn(Head(frames).states)
  BY DEF EventArrives, Delivers
<1>5. value' \in [Tracked -> Readings \cup {NoValue}] /\ NothingResurrected'
  BY <1>3, <1>4, Learned
<1>6. MeterTyped' BY <1>2, <1>4, <1>5 DEF MeterInv, MeterTyped
<1>7. link # "down" BY <1>1 DEF MeterInv, DownIsEmpty
<1>8. DownIsEmpty' BY <1>4, <1>7 DEF MeterInv, DownIsEmpty
<1>9. \A i \in 1 .. Len(frames') : HonestEvent(frames[i + 1])
  BY <1>2 DEF MeterInv, Sourced
<1>10. \A i \in 1 .. Len(frames') : HonestEvent(frames[i])'
  BY <1>2, <1>4, <1>9 DEF HonestEvent, Honest
<1>11. Sourced'
  BY <1>4, <1>5, <1>10 DEF MeterInv, Sourced, Honest, Fetching
<1> QED BY <1>6, <1>8, <1>11 DEF MeterInv

LEMMA FetchStep == ASSUME MeterInv, FetchAnswered \/ FetchLands \/ FetchFails PROVE MeterInv'
<1>1. Fetching /\ link # "down" /\ UNCHANGED server /\ UNCHANGED since
  BY DEF FetchAnswered, FetchLands, FetchFails, MeterInv, DownIsEmpty
<1>2. fetch.at \in 1 .. Len(Entities) /\ Entities[fetch.at] \in Tracked
  BY <1>1, EntitiesTracked DEF MeterInv, MeterTyped, Fetches, Fetching
<1>3. DownIsEmpty' BY <1>1 DEF server, MeterInv, DownIsEmpty
<1>4. \A i \in 1 .. Len(frames) : HonestEvent(frames[i])'
  BY <1>1 DEF server, MeterInv, Sourced, HonestEvent, Honest
<1>5. CASE FetchAnswered
  <2>1. fetch' \in Fetches /\ fetch'.told = state[Entities[fetch.at]] /\ fetch'.at = fetch.at
    BY <1>2, <1>5 DEF FetchAnswered, MeterInv, MeterTyped, Fetches
  <2>2. MeterTyped' BY <1>1, <1>5, <2>1 DEF FetchAnswered, server, MeterInv, MeterTyped
  <2>3. Sourced'
    BY <1>1, <1>2, <1>4, <1>5, <2>1 DEF FetchAnswered, server, MeterInv, Sourced, Honest,
       NothingResurrected
  <2> QED BY <1>3, <2>2, <2>3 DEF MeterInv
<1>6. CASE FetchLands
  <2>1. fetch' \in Fetches /\ fetch'.told = NoAnswer
    BY <1>6, FetchNext DEF FetchLands
  <2> DEFINE f == [e \in {Entities[fetch.at]} |-> fetch.told]
  <2>2. f \in [{Entities[fetch.at]} -> States] /\ {Entities[fetch.at]} \in SUBSET Tracked
    BY <1>2, <1>6 DEF FetchLands, MeterInv, MeterTyped, Fetches
  <2>3. Event(f, {}) \in Events /\ Event(f, {}).states = f BY <2>2, FullEvents
  <2>4. HonestEvent(Event(f, {}))
    BY <1>1, <1>2, <1>6, <2>3 DEF FetchLands, HonestEvent, Honest, MeterInv, Sourced
  <2>5. Told = Event(f, {}) BY DEF Told
  <2> HIDE DEF f
  <2>6. value' \in [Tracked -> Readings \cup {NoValue}] /\ NothingResurrected'
    BY <1>1, <1>6, <2>3, <2>4, <2>5, Learned DEF FetchLands, Delivers
  <2>7. MeterTyped' BY <1>1, <2>1, <2>6 DEF server, MeterInv, MeterTyped
  <2>8. Sourced' BY <1>1, <1>4, <2>1, <2>6 DEF server, MeterInv, Sourced, Honest
  <2> QED BY <1>3, <2>7, <2>8 DEF MeterInv
<1>7. CASE FetchFails
  <2>1. fetch' \in Fetches /\ fetch'.told = NoAnswer
    BY <1>7, FetchNext DEF FetchFails
  <2>2. MeterTyped' BY <1>1, <1>7, <2>1 DEF FetchFails, server, MeterInv, MeterTyped
  <2>3. Sourced'
    BY <1>1, <1>4, <1>7, <2>1 DEF FetchFails, server, MeterInv, Sourced, Honest, NothingResurrected
  <2> QED BY <1>3, <2>2, <2>3 DEF MeterInv
<1> QED BY <1>5, <1>6, <1>7

LEMMA MeterStart == MeterInit => MeterInv
<1> SUFFICES ASSUME MeterInit PROVE MeterInv OBVIOUS
<1>1. fetch \in Fetches /\ ~Fetching
  BY EntitiesTracked DEF MeterInit, NoFetch, Fetches, Fetching
<1>2. MeterTyped BY <1>1 DEF MeterInit, MeterTyped
<1>3. DownIsEmpty BY <1>1 DEF MeterInit, DownIsEmpty
<1>4. Sourced BY <1>1 DEF MeterInit, Sourced, NothingResurrected
<1> QED BY <1>2, <1>3, <1>4 DEF MeterInv

LEMMA MeterIdle ==
    ASSUME MeterInv, UNCHANGED <<link, subscribed, frames, state, value, fetch, since>>
    PROVE  MeterInv'
BY DEF MeterInv, MeterTyped, DownIsEmpty, Sourced, NothingResurrected, HonestEvent, Honest,
   Fetching

-----------------------------------------------------------------------------
(* The emulator                                                              *)

Handlers == [key : Keys, woken : BOOLEAN, age : 0 .. FreshTimeout]

\* A parked handler's battery was seen when it was parked or later, which is
\* too short ago for the inactivity check; there is one handler for a battery
\* and port; and what woke it is news.
Watched ==
    /\ handlers \subseteq Handlers
    /\ lastSeen \in [Batteries -> {Never} \cup 0 .. InactiveTimeout]
    /\ announced \subseteq Batteries
    /\ \A h \in handlers : lastSeen[h.key[1]] \in 0 .. h.age /\ h.key[1] \notin inactive
    /\ PresentIsWatched

OneEach ==
    /\ \A h \in handlers : h.key \in inflight
    /\ \A g \in handlers, h \in handlers : g.key = h.key => g = h
    /\ \A h \in handlers : h.woken => h.key \in news

ShellyInv == Watched /\ OneEach

LEMMA HandlerFields ==
    ASSUME NEW h \in Handlers
    PROVE  /\ h.key \in Keys /\ h.key[1] \in Batteries
           /\ h.woken \in BOOLEAN /\ h.age \in 0 .. FreshTimeout
           /\ [h EXCEPT !.woken = TRUE] \in Handlers
           /\ [h EXCEPT !.woken = TRUE].key = h.key
           /\ [h EXCEPT !.woken = TRUE].age = h.age
           /\ [h EXCEPT !.woken = TRUE].woken
           /\ h.age < FreshTimeout => [h EXCEPT !.age = @ + 1] \in Handlers
           /\ [h EXCEPT !.age = @ + 1].key = h.key
           /\ [h EXCEPT !.age = @ + 1].age = h.age + 1
           /\ [h EXCEPT !.age = @ + 1].woken = h.woken
<1>1. h.key \in Keys /\ h.woken \in BOOLEAN /\ h.age \in 0 .. FreshTimeout
  BY DEF Handlers
<1>2. h.key[1] \in Batteries BY <1>1 DEF Keys
<1>3. /\ [h EXCEPT !.woken = TRUE] \in Handlers
      /\ [h EXCEPT !.woken = TRUE].key = h.key
      /\ [h EXCEPT !.woken = TRUE].age = h.age
  BY DEF Handlers
<1>4. [h EXCEPT !.woken = TRUE].woken BY DEF Handlers
<1>5. h.age < FreshTimeout => h.age + 1 \in 0 .. FreshTimeout BY <1>1, ShellyAssumption
<1>6. h.age < FreshTimeout => [h EXCEPT !.age = @ + 1] \in Handlers
  BY <1>5 DEF Handlers
<1>7. /\ [h EXCEPT !.age = @ + 1].key = h.key
      /\ [h EXCEPT !.age = @ + 1].age = h.age + 1
      /\ [h EXCEPT !.age = @ + 1].woken = h.woken
  BY DEF Handlers
<1> QED BY <1>1, <1>2, <1>3, <1>4, <1>6, <1>7

LEMMA Parked ==
    ASSUME ShellyInv, NEW h \in handlers
    PROVE  /\ h \in Handlers /\ h.key \in Keys /\ h.key[1] \in Batteries
           /\ h.age \in 0 .. FreshTimeout /\ h.age \in Nat
           /\ lastSeen[h.key[1]] \in 0 .. h.age /\ h.key[1] \notin inactive
<1>1. h \in Handlers BY DEF ShellyInv, Watched
<1>2. h.key \in Keys /\ h.key[1] \in Batteries /\ h.age \in 0 .. FreshTimeout
  BY <1>1, HandlerFields
<1>3. h.age \in Nat BY <1>2, ShellyAssumption
<1>4. lastSeen[h.key[1]] \in 0 .. h.age /\ h.key[1] \notin inactive
  BY DEF ShellyInv, Watched
<1> QED BY <1>1, <1>2, <1>3, <1>4

LEMMA ShellyStart == Init => ShellyInv
BY ShellyAssumption DEF Init, ShellyInv, Watched, OneEach, PresentIsWatched

LEMMA PollStep ==
    ASSUME ShellyInv, NEW k \in Keys, NEW decodes \in BOOLEAN, Poll(k, decodes)
    PROVE  ShellyInv'
<1>1. k[1] \in Batteries BY DEF Keys
<1>2. /\ lastSeen' \in [Batteries -> {Never} \cup 0 .. InactiveTimeout]
      /\ lastSeen'[k[1]] = 0
      /\ \A b \in Batteries : lastSeen'[b] = lastSeen[b] \/ lastSeen'[b] = 0
      /\ inactive' \subseteq inactive /\ k[1] \notin inactive'
      /\ UNCHANGED <<announced, news>>
  BY <1>1, ShellyAssumption DEF Poll, Seen, ShellyInv, Watched
<1>3. PresentIsWatched'
  BY <1>2 DEF ShellyInv, Watched, PresentIsWatched, Never
<1>4. \A h \in handlers : lastSeen'[h.key[1]] \in 0 .. h.age /\ h.key[1] \notin inactive'
  <2> TAKE h \in handlers
  <2>1. h.key[1] \in Batteries /\ h.age \in Nat /\ lastSeen[h.key[1]] \in 0 .. h.age
        /\ h.key[1] \notin inactive
    BY Parked
  <2>2. lastSeen'[h.key[1]] = lastSeen[h.key[1]] \/ lastSeen'[h.key[1]] = 0
    BY <1>2, <2>1
  <2>3. h.key[1] \notin inactive' BY <1>2, <2>1
  <2> QED BY <2>1, <2>2, <2>3
<1> DEFINE new == [key |-> k, woken |-> FALSE, age |-> 0]
<1>5. new \in Handlers /\ new.key = k /\ ~new.woken /\ new.age = 0
  BY ShellyAssumption DEF Handlers
<1> HIDE DEF new
<1>6. CASE UNCHANGED <<handlers, inflight>>
  BY <1>2, <1>3, <1>4, <1>6 DEF ShellyInv, Watched, OneEach
<1>7. CASE /\ k \notin inflight
           /\ handlers' = handlers \cup {new} /\ inflight' = inflight \cup {k}
  <2>1. \A h \in handlers : h.key # k BY <1>7 DEF ShellyInv, OneEach
  <2>2. OneEach' BY <1>2, <1>5, <1>7, <2>1 DEF ShellyInv, OneEach
  <2>3. Watched' BY <1>2, <1>3, <1>4, <1>5, <1>7 DEF ShellyInv, Watched
  <2> QED BY <2>2, <2>3 DEF ShellyInv
<1> QED BY <1>6, <1>7 DEF Poll, Parks, new

LEMMA RingStep == ASSUME ShellyInv, NEW event, Rings(event) PROVE ShellyInv'
<1>1. UNCHANGED <<lastSeen, inactive, inflight, announced>> BY DEF Rings
<1>2. PresentIsWatched' BY <1>1 DEF ShellyInv, Watched, PresentIsWatched
<1>3. CASE UNCHANGED <<handlers, news>>
  BY <1>1, <1>2, <1>3 DEF ShellyInv, Watched, OneEach
<1>4. CASE handlers' = {[h EXCEPT !.woken = TRUE] : h \in handlers} /\ news' = Keys
  <2>1. \A g \in handlers' : \E h \in handlers :
           /\ g = [h EXCEPT !.woken = TRUE]
           /\ g \in Handlers /\ g.key = h.key /\ g.age = h.age /\ h.key \in Keys
    <3> TAKE g \in handlers'
    <3>1. PICK h \in handlers : g = [h EXCEPT !.woken = TRUE] BY <1>4
    <3>2. h \in Handlers /\ h.key \in Keys BY Parked
    <3> QED BY <3>1, <3>2, HandlerFields
  <2>2. OneEach'
    <3>1. \A g \in handlers' : g.key \in inflight' /\ g.key \in news'
      BY <1>1, <1>4, <2>1 DEF ShellyInv, OneEach
    <3>2. ASSUME NEW f \in handlers', NEW g \in handlers', f.key = g.key PROVE f = g
      <4>1. PICK h \in handlers : f = [h EXCEPT !.woken = TRUE] /\ f.key = h.key BY <2>1
      <4>2. PICK i \in handlers : g = [i EXCEPT !.woken = TRUE] /\ g.key = i.key BY <2>1
      <4>3. h = i BY <3>2, <4>1, <4>2 DEF ShellyInv, OneEach
      <4> QED BY <4>1, <4>2, <4>3
    <3> QED BY <3>1, <3>2 DEF OneEach
  <2>3. Watched' BY <1>1, <1>2, <2>1 DEF ShellyInv, Watched
  <2> QED BY <2>2, <2>3 DEF ShellyInv
<1> QED BY <1>3, <1>4 DEF Rings

LEMMA AnswerStep == ASSUME ShellyInv, NEW h \in handlers, Answer(h) PROVE ShellyInv'
<1>1. /\ UNCHANGED <<lastSeen, inactive>>
      /\ handlers' = handlers \ {h} /\ inflight' = inflight \ {h.key}
      /\ announced' \in {announced, announced \cup {h.key[1]}}
      /\ news' \in {news, news \ {h.key}}
  BY DEF Answer
<1>2. /\ h.key[1] \in Batteries /\ h.age \in Nat
      /\ lastSeen[h.key[1]] \in 0 .. h.age /\ h.key[1] \notin inactive
  BY Parked
<1>3. PresentIsWatched' BY <1>1, <1>2 DEF ShellyInv, Watched, PresentIsWatched, Never
<1>4. \A g \in handlers' : g \in handlers /\ g.key # h.key
  BY <1>1 DEF ShellyInv, OneEach
<1>5. OneEach' BY <1>1, <1>4 DEF ShellyInv, OneEach
<1>6. Watched' BY <1>1, <1>2, <1>3, <1>4 DEF ShellyInv, Watched
<1> QED BY <1>5, <1>6 DEF ShellyInv

LEMMA CheckStep == ASSUME ShellyInv, InactiveCheck PROVE ShellyInv'
<1>1. UNCHANGED <<lastSeen, inflight, handlers, news>> /\ announced' \subseteq announced
  BY DEF InactiveCheck
<1>2. \A b \in announced' : b \in announced /\ b \notin inactive'
  BY DEF InactiveCheck, Lapses, ShellyInv, Watched, PresentIsWatched
<1>3. PresentIsWatched' BY <1>1, <1>2 DEF ShellyInv, Watched, PresentIsWatched
<1>4. ASSUME NEW h \in handlers PROVE h.key[1] \notin inactive'
  <2>1. lastSeen[h.key[1]] \in 0 .. h.age /\ h.age \in 0 .. FreshTimeout
    BY Parked
  <2>2. lastSeen[h.key[1]] # InactiveTimeout BY <2>1, ShellyAssumption
  <2> QED BY <2>2 DEF InactiveCheck, Lapses, ShellyInv, Watched
<1> QED BY <1>1, <1>3, <1>4 DEF ShellyInv, Watched, OneEach

LEMMA TickStep == ASSUME ShellyInv, Tick PROVE ShellyInv'
<1>1. /\ UNCHANGED <<inactive, inflight, announced, news>>
      /\ handlers' = {[h EXCEPT !.age = @ + 1] : h \in handlers}
      /\ \A h \in handlers : h.age < FreshTimeout
      /\ lastSeen' = [b \in Batteries |-> Grown(lastSeen[b], InactiveTimeout)]
  BY DEF Tick
<1>2. /\ lastSeen' \in [Batteries -> {Never} \cup 0 .. InactiveTimeout]
      /\ \A b \in Batteries : /\ lastSeen[b] # Never => lastSeen'[b] # Never
                              /\ lastSeen[b] # Never => lastSeen'[b] \in 0 .. lastSeen[b] + 1
  BY <1>1, ShellyAssumption DEF Grown, Never, ShellyInv, Watched
<1>3. PresentIsWatched' BY <1>1, <1>2 DEF ShellyInv, Watched, PresentIsWatched
<1>4. ASSUME NEW g \in handlers'
      PROVE  \E h \in handlers :
               /\ g = [h EXCEPT !.age = @ + 1]
               /\ g \in Handlers /\ g.key = h.key /\ g.woken = h.woken
               /\ lastSeen'[g.key[1]] \in 0 .. g.age
  <2>1. PICK h \in handlers : g = [h EXCEPT !.age = @ + 1] BY <1>1
  <2>2. h \in Handlers /\ lastSeen[h.key[1]] \in 0 .. h.age /\ h.age < FreshTimeout
        /\ h.key[1] \in Batteries /\ h.age \in Nat
    BY <1>1, Parked
  <2>3. g \in Handlers /\ g.key = h.key /\ g.woken = h.woken /\ g.age = h.age + 1
    BY <2>1, <2>2, HandlerFields
  <2>4. lastSeen'[h.key[1]] \in 0 .. lastSeen[h.key[1]] + 1
    BY <1>2, <2>2 DEF Never
  <2>5. lastSeen'[g.key[1]] \in 0 .. g.age
    BY <2>2, <2>3, <2>4
  <2> QED BY <2>1, <2>3, <2>5
<1>5. OneEach' BY <1>1, <1>4 DEF ShellyInv, OneEach
<1>6. Watched' BY <1>1, <1>2, <1>3, <1>4 DEF ShellyInv, Watched
<1> QED BY <1>5, <1>6 DEF ShellyInv

LEMMA PushSteps == ASSUME MeterInv, ShellyInv, Pushes PROVE MeterInv' /\ ShellyInv'
<1>1. CASE EventArrives /\ Rings(Head(frames)) BY <1>1, EventStep, RingStep
<1>2. CASE FetchLands /\ Rings(Told) BY <1>2, FetchStep, RingStep
<1>3. CASE MeterQuietly /\ UNCHANGED shellyVars
  <2>1. MeterInv'
    BY <1>3, SensorStep, ServerStep, LinkStep, FetchStep DEF MeterQuietly
  <2>2. ShellyInv'
    BY <1>3 DEF shellyVars, ShellyInv, Watched, OneEach, PresentIsWatched
  <2> QED BY <2>1, <2>2
<1> QED BY <1>1, <1>2, <1>3 DEF Pushes

LEMMA Steps == ASSUME MeterInv, ShellyInv, [Next]_vars PROVE MeterInv' /\ ShellyInv'
<1>1. ASSUME NEW k \in Keys, NEW decodes \in BOOLEAN, Poll(k, decodes)
      PROVE  MeterInv' /\ ShellyInv'
  <2>1. MeterInv' BY <1>1, MeterIdle DEF Poll, server
  <2> QED BY <1>1, <2>1, PollStep
<1>2. ASSUME NEW h \in handlers, Answer(h) PROVE MeterInv' /\ ShellyInv'
  <2>1. MeterInv' BY <1>2, MeterIdle DEF Answer, meterVars, server, client
  <2> QED BY <1>2, <2>1, AnswerStep
<1>3. CASE InactiveCheck
  <2>1. MeterInv' BY <1>3, MeterIdle DEF InactiveCheck, meterVars, server, client
  <2> QED BY <1>3, <2>1, CheckStep
<1>4. CASE Tick
  <2>1. MeterInv' BY <1>4, MeterIdle DEF Tick, meterVars, server, client
  <2> QED BY <1>4, <2>1, TickStep
<1>5. CASE Pushes BY <1>5, PushSteps
<1>6. CASE UNCHANGED vars
  <2>1. MeterInv' BY <1>6, MeterIdle DEF vars, meterVars, server, client
  <2>2. ShellyInv'
    BY <1>6 DEF vars, shellyVars, ShellyInv, Watched, OneEach, PresentIsWatched
  <2> QED BY <2>1, <2>2
<1> QED BY <1>1, <1>2, <1>3, <1>4, <1>5, <1>6 DEF Next

LEMMA Invariant == Spec => [](MeterInv /\ ShellyInv)
<1>1. Init => MeterInv /\ ShellyInv BY MeterStart, ShellyStart DEF Init
<1> QED BY <1>1, Steps, PTL DEF Spec

\* Whatever the meter serves was a state the entity had since the present link
\* was opened, through every order of events, fetches, breaks and reconnects.
THEOREM ValuesOfThisLink == Spec => []NothingResurrected
<1>1. MeterInv => NothingResurrected BY DEF MeterInv, Sourced
<1> QED BY <1>1, Invariant, PTL

\* A battery that is counted as present will be announced as gone when it falls
\* silent: no answer that was waited for outlives the inactivity check.
THEOREM PresenceWatched == Spec => []PresentIsWatched
<1>1. ShellyInv => PresentIsWatched BY DEF ShellyInv, Watched
<1> QED BY <1>1, Invariant, PTL

\* The step that removes one handler and nothing else is its answer: every
\* other keeps the battery and port of each handler, or has other handlers.
LEMMA OnlyAnswer ==
    ASSUME ShellyInv, NEW h \in handlers, handlers' = handlers \ {h}, [Next]_vars
    PROVE  Answer(h)
<1>1. h \notin handlers' OBVIOUS
<1>2. ASSUME NEW g \in handlers', g.key = h.key PROVE FALSE
  BY <1>1, <1>2 DEF ShellyInv, OneEach
<1>3. ASSUME NEW k \in Keys, NEW decodes \in BOOLEAN, Poll(k, decodes) PROVE FALSE
  BY <1>1, <1>3 DEF Poll
<1>4. ASSUME NEW event, Rings(event) PROVE FALSE
  <2>1. CASE UNCHANGED handlers BY <1>1, <2>1
  <2>2. CASE handlers' = {[g EXCEPT !.woken = TRUE] : g \in handlers}
    <3>1. [h EXCEPT !.woken = TRUE].key = h.key BY Parked, HandlerFields
    <3> QED BY <1>2, <2>2, <3>1
  <2> QED BY <1>4, <2>1, <2>2 DEF Rings
<1>5. ASSUME Tick PROVE FALSE
  <2>1. [h EXCEPT !.age = @ + 1].key = h.key BY Parked, HandlerFields
  <2> QED BY <1>2, <1>5, <2>1 DEF Tick
<1>6. ASSUME NEW g \in handlers, Answer(g) PROVE g = h
  BY <1>6 DEF Answer
<1>7. ASSUME UNCHANGED handlers PROVE FALSE BY <1>1, <1>7
<1>8. ASSUME Pushes PROVE FALSE BY <1>4, <1>7, <1>8 DEF Pushes, shellyVars
<1>9. ASSUME InactiveCheck PROVE FALSE BY <1>7, <1>9 DEF InactiveCheck
<1> QED BY <1>3, <1>5, <1>6, <1>7, <1>8, <1>9 DEF Next, vars, shellyVars

\* One reading is answered once: a reply that was not waited out follows
\* something the meter pushed since the reply before it.
THEOREM RepliesAreNews == Spec => EachReplyIsNews
<1>1. ASSUME ShellyInv, [Next]_vars, NEW h \in handlers, handlers' = handlers \ {h},
             h.age < FreshTimeout
      PROVE  h.key \in news
  <2>1. Answer(h) BY <1>1, OnlyAnswer
  <2>2. h.age # FreshTimeout BY <1>1, Parked, ShellyAssumption
  <2>3. h.woken BY <2>1, <2>2 DEF Answer
  <2> QED BY <1>1, <2>3 DEF ShellyInv, OneEach
<1>2. ShellyInv /\ [Next]_vars =>
        [\A h \in handlers :
           handlers' = handlers \ {h} /\ h.age < FreshTimeout /\ Usable(value)
               => h.key \in news]_vars
  BY <1>1
<1> QED BY <1>2, Invariant, PTL DEF Spec, EachReplyIsNews

-----------------------------------------------------------------------------
(* The supervisor                                                            *)

USE SupervisorAssumption DEF SupervisorAssumption

CycleRecords == [at : Places, failed : BOOLEAN]

LEMMA GoingOn ==
    ASSUME TypeOK, NEW p \in Places
    PROVE  /\ Going(p) \in CycleRecords
           /\ Going(p).at = p /\ Going(p).failed = cycle.failed
<1>1. Going(p) \in CycleRecords BY DEF TypeOK, Going, Places, CycleRecords
<1>2. cycle \in CycleRecords BY DEF TypeOK, CycleRecords
<1> QED BY <1>1, <1>2 DEF Going, CycleRecords

LEMMA FailingAt ==
    ASSUME NEW p \in Places
    PROVE  /\ Failing(p) \in CycleRecords
           /\ Failing(p).at = p /\ Failing(p).failed
BY DEF Failing, CycleRecords

LEMMA FreshCycle ==
    ASSUME NEW p \in Places
    PROVE  [at |-> p, failed |-> FALSE] \in CycleRecords
BY DEF CycleRecords

LEMMA TypeInit == SupervisorInit => TypeOK
<1>1. NoCycle \in [at : Places, failed : BOOLEAN]
  BY FreshCycle DEF NoCycle, Places, CycleRecords
<1>2. 0 \in 0 .. MaxSaves /\ 0 \in 0 .. Meters OBVIOUS
<1> QED BY <1>1, <1>2, Zenon DEF SupervisorInit, TypeOK, Phases, DevicePlaces

LEMMA TypeStrikes ==
    ASSUME TypeOK
    PROVE  /\ StrikeDevices => /\ device' \in [Devices -> DevicePlaces]
                               /\ listed' \subseteq Devices
                               /\ lingering' \subseteq Devices
                               /\ leaked' \subseteq Devices
           /\ StrikeCycle => /\ cycle' \in [at : Places, failed : BOOLEAN]
                             /\ meters' \in 0 .. Meters /\ insights' \in BOOLEAN
                             /\ torn' \in BOOLEAN
<1>1. \A d \in Devices : Struck(d) \in DevicePlaces
  BY DEF TypeOK, Struck, DevicePlaces
<1>2. StrikeDevices => /\ device' \in [Devices -> DevicePlaces]
                       /\ listed' \subseteq Devices
                       /\ lingering' \subseteq Devices
                       /\ leaked' \subseteq Devices
  BY <1>1 DEF TypeOK, StrikeDevices, DevicePlaces
<1>3. StrikeCycle => /\ cycle' \in [at : Places, failed : BOOLEAN]
                     /\ meters' \in 0 .. Meters /\ insights' \in BOOLEAN
                     /\ torn' \in BOOLEAN
  BY GoingOn, FreshCycle DEF TypeOK, StrikeCycle, At, Places, CycleRecords
<1> QED BY <1>2, <1>3

LEMMA TypeCancel ==
    ASSUME TypeOK, CancelCycle
    PROVE  /\ device' \in [Devices -> DevicePlaces] /\ listed' \subseteq Devices
           /\ lingering' \subseteq Devices /\ leaked' \subseteq Devices
           /\ cycle' \in [at : Places, failed : BOOLEAN]
           /\ meters' \in 0 .. Meters /\ insights' \in BOOLEAN /\ torn' \in BOOLEAN
BY TypeStrikes DEF CancelCycle, TypeOK, sockets

LEMMA TypeCycle == ASSUME TypeOK, CycleSteps PROVE TypeOK'
<1>0. \A p \in Places : Going(p) \in [at : Places, failed : BOOLEAN]
                       /\ Failing(p) \in [at : Places, failed : BOOLEAN]
  BY GoingOn, FailingAt DEF CycleRecords
<1>p. {"starting", "testing", "serving", "stopping", "done"} \subseteq Places
  BY DEF Places
<1> USE <1>0, <1>p DEF TypeOK, DevicePlaces, At, supervision, requests, sockets, history,
    running
<1>1. CASE StartMeter
  <2>1. meters' \in 0 .. Meters BY <1>1 DEF StartMeter
  <2>2. cycle' \in [at : Places, failed : BOOLEAN] BY <1>1, ZenonT(30) DEF StartMeter
  <2> QED BY <1>1, <2>1, <2>2, Zenon DEF StartMeter
<1>2. CASE TestMeters
  <2>1. cycle' \in [at : Places, failed : BOOLEAN]
    <3>1. cycle' = Going("serving") \/ cycle' = Failing("stopping") BY <1>2 DEF TestMeters
    <3>2. Going("serving") \in [at : Places, failed : BOOLEAN] BY Zenon
    <3>3. Failing("stopping") \in [at : Places, failed : BOOLEAN] BY Zenon
    <3> QED BY <3>1, <3>2, <3>3, Zenon
  <2>2. device' \in [Devices -> DevicePlaces] BY <1>2, Zenon DEF TestMeters
  <2>3. insights' \in BOOLEAN
    <3>1. insights' = TRUE \/ UNCHANGED insights BY <1>2 DEF TestMeters
    <3> QED BY <3>1, Zenon
  <2>4. UNCHANGED <<phase, restart, read, meters, listed, lingering, leaked, file, asked,
                    stopping, due, torn, swallowed>>
    BY <1>2 DEF TestMeters
  <2> QED BY <2>1, <2>2, <2>3, <2>4, Zenon
<1>3. CASE DevicesReturn
  <2>1. cycle' = Going("stopping") BY <1>3 DEF DevicesReturn
  <2>2. cycle' \in [at : Places, failed : BOOLEAN] BY <2>1, Zenon
  <2>3. UNCHANGED <<phase, restart, read, meters, insights, device, listed, lingering, leaked,
                    file, asked, stopping, due, torn, swallowed>>
    BY <1>3 DEF DevicesReturn
  <2> QED BY <2>2, <2>3, Zenon
<1>4. CASE StopCycle
  <2>1. meters' \in 0 .. Meters BY <1>4 DEF StopCycle
  <2>2. cycle' \in [at : Places, failed : BOOLEAN] BY <1>4, ZenonT(30) DEF StopCycle
  <2> QED BY <1>4, <2>1, <2>2, Zenon DEF StopCycle
<1>5. ASSUME NEW d \in Devices,
             StartDevice(d) \/ Binds(d) \/ Leave(d) \/ LeaveLate(d) \/ DeviceRaises(d)
      PROVE  TypeOK'
  <2>1. CASE StartDevice(d) BY <2>1 DEF StartDevice
  <2>2. CASE Binds(d) BY <2>2 DEF Binds
  <2>3. CASE Leave(d) BY <2>3 DEF Leave
  <2>4. CASE LeaveLate(d) BY <2>4 DEF LeaveLate
  <2>5. CASE DeviceRaises(d) BY <2>5 DEF DeviceRaises
  <2> QED BY <1>5, <2>1, <2>2, <2>3, <2>4, <2>5
<1> QED BY <1>1, <1>2, <1>3, <1>4, <1>5 DEF CycleSteps

LEMMA TypeSupervisor == ASSUME TypeOK, SupervisorSteps PROVE TypeOK'
<1> USE DEF TypeOK, Phases, requests, sockets, history, running
<1>1. CASE Registered
  BY <1>1, FreshCycle DEF Registered, Places, DevicePlaces, CycleRecords
<1>2. CASE CycleOver BY <1>2 DEF CycleOver
<1>3. CASE RestartSeen BY <1>3, TypeCancel DEF RestartSeen
<1>4. CASE Unwound BY <1>4 DEF Unwound
<1>5. CASE ReadConfig BY <1>5 DEF ReadConfig
<1>6. CASE ReloadDone BY <1>6 DEF ReloadDone
<1>7. CASE WebStopped BY <1>7, TypeStrikes DEF WebStopped
<1>8. CASE Exit BY <1>8 DEF Exit
<1> QED BY <1>1, <1>2, <1>3, <1>4, <1>5, <1>6, <1>7, <1>8 DEF SupervisorSteps

LEMMA TypeRequests ==
    ASSUME TypeOK, Save \/ AskRestart \/ Signal \/ Stop PROVE TypeOK'
<1> USE DEF TypeOK, Phases, supervision, requests, sockets, history, running
<1>1. CASE Save BY <1>1 DEF Save
<1>2. CASE AskRestart BY <1>2 DEF AskRestart
<1>3. CASE Signal BY <1>3 DEF Signal
<1>4. CASE Stop BY <1>4, TypeCancel DEF Stop
<1> QED BY <1>1, <1>2, <1>3, <1>4

\* Every variable keeps its type, whatever is started, cancelled and stopped.
THEOREM SupervisorTypeCorrect == SupervisorSpec => []TypeOK
<1>1. TypeOK /\ [SupervisorNext]_supervisorVars => TypeOK'
  <2>1. ASSUME TypeOK, UNCHANGED supervisorVars PROVE TypeOK'
    BY <2>1 DEF TypeOK, supervisorVars, supervision, running, sockets, requests, history
  <2> QED BY <2>1, TypeCycle, TypeSupervisor, TypeRequests DEF SupervisorNext
<1> QED BY TypeInit, <1>1, PTL DEF SupervisorSpec

-----------------------------------------------------------------------------
\* What is due was read, or the restart event is set; between the reading of
\* the file and the clearing of the event nothing becomes due.
Kept ==
    /\ due <= file
    /\ phase = "reread" => due <= read
    /\ phase \in {"registering", "running"} /\ ~restart => due <= read

LEMMA KeptStep == ASSUME TypeOK, Kept, [SupervisorNext]_supervisorVars PROVE Kept'
<1> USE DEF TypeOK, Kept
<1>1. CASE SupervisorSteps
  BY <1>1 DEF SupervisorSteps, Registered, CycleOver, RestartSeen, Unwound, ReadConfig,
     ReloadDone, WebStopped, Exit, requests
<1>2. CASE CycleSteps
  BY <1>2 DEF CycleSteps, StartMeter, TestMeters, DevicesReturn, StopCycle, StartDevice,
     Binds, Leave, LeaveLate, DeviceRaises, requests, supervision
<1>3. CASE Save BY <1>3 DEF Save, supervision
<1>4. CASE AskRestart BY <1>4 DEF AskRestart, supervision
<1>5. CASE Signal BY <1>5 DEF Signal
<1>6. CASE Stop BY <1>6 DEF Stop
<1>7. CASE UNCHANGED supervisorVars BY <1>7 DEF supervisorVars, supervision, requests
<1> QED BY <1>1, <1>2, <1>3, <1>4, <1>5, <1>6, <1>7 DEF SupervisorNext

\* A restart that is signalled takes over what was saved before it, however it
\* falls among the steps of the restart before, except for one signalled after the
\* reload has read the file, which is cleared with the restart it interrupts.
THEOREM RestartTakesOver == SupervisorSpec => []RestartsAreKept
<1>1. SupervisorInit => Kept BY DEF SupervisorInit, Kept
<1>2. Kept => RestartsAreKept BY DEF Kept, RestartsAreKept
<1> QED BY <1>1, <1>2, KeptStep, SupervisorTypeCorrect, PTL DEF SupervisorSpec

-----------------------------------------------------------------------------
NoneStands == \A d \in Devices : device[d] \notin {"starting", "binding", "serving"}

\* While no cancel has cut a cycle's `finally` short: a cycle that has come to
\* no device yet has none and no MQTT client; a cancel strikes all devices of
\* a cycle at once; and between two cycles nothing stands and nothing is listed.
Apart ==
    ~torn =>
    /\ At("none") \/ At("starting") \/ At("testing") =>
         ~insights /\ \A d \in Devices : device[d] = "idle"
    /\ At("done") => ~insights
    /\ At("serving") /\ (\E d \in Devices : device[d] \in {"leaving", "cancelled"}) =>
         NoneStands
    /\ (At("stopping") \/ At("done")) /\ ~cycle.failed =>
         NoneStands
    /\ phase \in {"registering", "reloading", "reread"} =>
         /\ At("none") \/ (At("done") /\ ~cycle.failed)
         /\ listed = {}
    /\ phase = "running" => listed = Up

LEMMA ApartCycle == ASSUME TypeOK, Apart, CycleSteps PROVE Apart'
<1> SUFFICES ASSUME ~torn' PROVE Apart'
  BY DEF Apart
<1>0. ~torn
  BY DEF CycleSteps, StartMeter, TestMeters, DevicesReturn, StopCycle, StartDevice,
     Binds, Leave, LeaveLate, DeviceRaises, history
<1> USE <1>0 DEF TypeOK, Apart, At, Going, Failing, NoneStands, Up, supervision, requests,
    sockets, running, history, Places, DevicePlaces
<1>1. CASE StartMeter BY <1>1 DEF StartMeter
<1>2. CASE TestMeters BY <1>2 DEF TestMeters
<1>3. CASE DevicesReturn BY <1>3 DEF DevicesReturn
<1>4. CASE StopCycle BY <1>4 DEF StopCycle
<1>5. ASSUME NEW d \in Devices,
             StartDevice(d) \/ Binds(d) \/ Leave(d) \/ LeaveLate(d) \/ DeviceRaises(d)
      PROVE  Apart'
  <2>1. CASE StartDevice(d) BY <2>1 DEF StartDevice
  <2>2. CASE Binds(d) BY <2>2 DEF Binds
  <2>3. CASE Leave(d) BY <2>3 DEF Leave
  <2>4. CASE LeaveLate(d) BY <2>4 DEF LeaveLate
  <2>5. CASE DeviceRaises(d) BY <2>5 DEF DeviceRaises
  <2> QED BY <1>5, <2>1, <2>2, <2>3, <2>4, <2>5
<1> QED BY <1>1, <1>2, <1>3, <1>4, <1>5 DEF CycleSteps

\* A cancel that cuts nothing short strikes every device that stands, and
\* leaves a cycle that was not serving without any.
LEMMA CancelStrikes ==
    ASSUME TypeOK, Apart, CancelCycle, ~torn'
    PROVE  /\ ~torn
           /\ cycle' = cycle \/ (cycle' = Going("stopping") /\ (At("starting") \/ At("testing")))
           /\ insights' = insights
           /\ At("serving") => \A d \in Devices : device'[d] \notin {"starting", "binding", "serving"}
           /\ ~At("serving") => device' = device
<1>1. ~torn /\ insights' = insights
  BY DEF CancelCycle, StrikeCycle, TypeOK
<1>2. cycle' = cycle \/ (cycle' = Going("stopping") /\ (At("starting") \/ At("testing")))
  BY DEF CancelCycle, StrikeCycle, At
<1>3. ASSUME At("serving"), NEW d \in Devices
      PROVE  device'[d] \notin {"starting", "binding", "serving"}
  BY <1>3 DEF CancelCycle, StrikeDevices, Struck, TypeOK, DevicePlaces
<1>4. ~At("serving") => device' = device
  BY DEF CancelCycle, sockets
<1> QED BY <1>1, <1>2, <1>3, <1>4

LEMMA ApartCancel ==
    ASSUME TypeOK, Apart, CancelCycle, phase' = "unwinding"
    PROVE  Apart'
<1> SUFFICES ASSUME ~torn' PROVE Apart'
  BY DEF Apart
<1>1. CASE At("serving")
  <2>1. cycle' = cycle BY <1>1, CancelStrikes DEF At
  <2> QED BY <1>1, <2>1, CancelStrikes DEF Apart, At, NoneStands
<1>2. CASE ~At("serving") /\ cycle' = cycle
  BY <1>2, CancelStrikes DEF Apart, At, NoneStands
<1>3. CASE cycle' = Going("stopping") /\ (At("starting") \/ At("testing"))
  <2>1. cycle'.at = "stopping" BY <1>3, GoingOn DEF Places
  <2> QED BY <1>3, <2>1, CancelStrikes DEF Apart, At, NoneStands
<1> QED BY <1>1, <1>2, <1>3, CancelStrikes

LEMMA ApartSupervisor == ASSUME TypeOK, Apart, SupervisorSteps PROVE Apart'
<1> USE DEF requests, sockets, history, running
<1>1. CASE Registered
  BY <1>1 DEF Registered, Apart, At, NoneStands, Up, TypeOK
<1>2. CASE CycleOver BY <1>2 DEF CycleOver, Apart, At, NoneStands
<1>3. CASE RestartSeen BY <1>3, ApartCancel DEF RestartSeen
<1>4. CASE Unwound BY <1>4 DEF Unwound, Apart, At, NoneStands
<1>5. CASE ReadConfig BY <1>5 DEF ReadConfig, Apart, At, NoneStands
<1>6. CASE ReloadDone BY <1>6 DEF ReloadDone, Apart, At, NoneStands
<1>8. CASE Exit BY <1>8 DEF Exit, Apart, At, NoneStands
<1>7. CASE WebStopped
  <2>0. phase' = "ended" /\ StrikeCycle /\ StrikeDevices BY <1>7 DEF WebStopped
  <2> SUFFICES ASSUME ~torn' PROVE Apart'
    BY DEF Apart
  <2>1. /\ ~torn /\ insights' = insights
        /\ \/ cycle' = cycle
           \/ cycle' = Going("stopping") /\ (At("starting") \/ At("testing"))
    BY <2>0 DEF StrikeCycle, TypeOK, At
  <2>2. \A d \in Devices : /\ device'[d] \notin {"starting", "binding", "serving"}
                           /\ device[d] = "idle" => device'[d] = "idle"
    BY <2>0 DEF StrikeDevices, Struck, TypeOK, DevicePlaces, NoneStands
  <2>3. cycle' = cycle \/ cycle'.at = "stopping"
    BY <2>1, GoingOn DEF Places
  <2>5. (At("none") \/ At("starting") \/ At("testing"))' =>
          ~insights' /\ \A d \in Devices : device'[d] = "idle"
    BY <2>1, <2>2, <2>3 DEF Apart, At
  <2>6. At("done")' => ~insights'
    BY <2>1, <2>3 DEF Apart, At
  <2>7. NoneStands'
    BY <2>2 DEF NoneStands
  <2>8. phase' \notin {"registering", "reloading", "reread", "running"}
    BY <2>0
  <2> QED BY <2>5, <2>6, <2>7, <2>8 DEF Apart
<1> QED BY <1>1, <1>2, <1>3, <1>4, <1>5, <1>6, <1>7, <1>8 DEF SupervisorSteps

LEMMA ApartRequests ==
    ASSUME TypeOK, Apart, Save \/ AskRestart \/ Signal \/ Stop PROVE Apart'
<1> USE DEF supervision, requests, sockets, history, running
<1>1. CASE Save BY <1>1 DEF Save, Apart, At, NoneStands, Up
<1>2. CASE AskRestart BY <1>2 DEF AskRestart, Apart, At, NoneStands, Up
<1>3. CASE Signal BY <1>3 DEF Signal, Apart, At, NoneStands, Up
<1>4. CASE Stop
  <2>1. CASE phase' = "ending" BY <1>4, <2>1 DEF Stop, Apart, At, NoneStands
  <2>2. CASE phase' = "unwinding" BY <1>4, <2>2, ApartCancel DEF Stop
  <2> QED BY <1>4, <2>1, <2>2 DEF Stop
<1> QED BY <1>1, <1>2, <1>3, <1>4

\* While a cycle runs the dashboard lists exactly the devices that are up in
\* it, and no MQTT client of a former cycle serves beside it.
THEOREM EachCycleStandsAlone == SupervisorSpec => []CycleStandsAlone
<1>1. SupervisorInit => Apart BY DEF SupervisorInit, Apart, At, NoCycle, NoneStands
<1>2. Apart => CycleStandsAlone BY DEF Apart, CycleStandsAlone
<1>3. ASSUME TypeOK, Apart, [SupervisorNext]_supervisorVars PROVE Apart'
  <2>1. CASE UNCHANGED supervisorVars
    BY <1>3, <2>1 DEF supervisorVars, supervision, running, sockets, requests, history, Apart, At,
       NoneStands, Up
  <2> QED BY <1>3, <2>1, ApartCycle, ApartSupervisor, ApartRequests DEF SupervisorNext
<1> QED BY <1>1, <1>2, <1>3, SupervisorTypeCorrect, PTL DEF SupervisorSpec
=============================================================================
