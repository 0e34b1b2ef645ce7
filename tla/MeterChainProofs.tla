-------------------------- MODULE MeterChainProofs --------------------------
(***************************************************************************)
(* Theorems about MeterChain, for every set of batteries and passive       *)
(* readers, every throttle and every timeout MeterChain admits.            *)
(***************************************************************************)
EXTENDS MeterChain, TLAPS

-----------------------------------------------------------------------------
(* Type correctness. *)

\* An age one tick later is at most one tick older, and within its cap.
LEMMA AgedType ==
    ASSUME NEW cap \in Nat, NEW age \in 0..cap
    PROVE  Aged(age, cap) \in 0..cap /\ Aged(age, cap) \in {age, age + 1}
BY DEF Aged

\* The end of a read leaves every task at one of the stages.
LEMMA ReleasedType ==
    ASSUME NEW t, NEW ended, pc \in [Tasks -> Stages]
    PROVE  Released(t, ended) \in [Tasks -> Stages]
BY DEF Released, Stages

LEMMA WaitsWithoutType ==
    ASSUME NEW t, waitsFor \in [Passives -> SUBSET Tasks]
    PROVE  WaitsWithout(t) \in [Passives -> SUBSET Tasks]
BY DEF WaitsWithout

LEMMA ConstantsInNat ==
    ASSUME TypeOK
    PROVE  /\ interval \in Nat /\ MaxAge \in Nat
           /\ SourceTimeout \in Nat /\ ProbeTimeout \in Nat /\ Horizon \in Nat
           /\ Probe \in Tasks /\ Probe \in Controls
           /\ Controls \subseteq Tasks /\ Passives \subseteq Tasks
BY ChainAssumption DEF TypeOK, MaxAge, Tasks, Controls

LEMMA InitType == Init => TypeOK
<1> SUFFICES ASSUME Init PROVE TypeOK
  OBVIOUS
<1>1. interval \in Nat /\ PassiveMaxAge \in Nat /\ SourceTimeout \in Nat
      /\ ProbeTimeout \in Nat /\ Horizon \in Nat
  BY ChainAssumption DEF Init
<1>2. nap \in 0..interval /\ sinceUpdate \in 0..interval /\ quiet \in 0..interval
      /\ readAge \in 0..(MaxAge + 1)
  BY <1>1 DEF Init, MaxAge
<1>3. readFor \in [Tasks -> 0..SourceTimeout] /\ asked \in [Passives -> 0..Horizon]
      /\ probeFor \in 0..ProbeTimeout /\ lastAttempt \in 0..Horizon
  BY <1>1 DEF Init
<1>4. pc \in [Tasks -> Stages] /\ waitsFor \in [Passives -> SUBSET Tasks]
  BY DEF Init, Stages
<1> QED BY <1>2, <1>3, <1>4 DEF Init, TypeOK

\* A caller that enters the chain, a battery's or the probe's.
LEMMA EnterType ==
    ASSUME TypeOK, NEW t \in Controls, Enter(t), probeFor' \in 0..ProbeTimeout
    PROVE  TypeOK'
<1>1. FirstStage \in Stages
  BY DEF FirstStage, Stages
<1>2. FirstStage = "sleeps" => interval - sinceUpdate \in 0..interval
  BY ConstantsInNat DEF FirstStage, TypeOK
<1>3. pc' \in [Tasks -> Stages]
  BY <1>1, ConstantsInNat DEF Enter, TypeOK
<1>4. nap' \in 0..interval
  BY <1>2 DEF Enter, TypeOK
<1>5. lastAttempt' \in 0..Horizon
  BY ConstantsInNat DEF Enter
<1>6. pendingFetch' \in BOOLEAN
  BY DEF Enter, TypeOK
<1> QED BY <1>3, <1>4, <1>5, <1>6 DEF TypeOK, Enter, MaxAge

LEMMA LookType ==
    ASSUME TypeOK, NEW p \in Passives, NEW age \in 0..Horizon,
           NEW running \in SUBSET Tasks, Look(p, age, running)
    PROVE  TypeOK'
<1>1. pc' \in [Tasks -> Stages]
  BY DEF Look, TypeOK, Stages
<1>2. waitsFor' \in [Passives -> SUBSET Tasks]
  BY DEF Look, TypeOK
<1>3. asked' \in [Passives -> 0..Horizon]
  BY ConstantsInNat DEF Look, TypeOK
<1>4. lastAttempt' \in 0..Horizon /\ lastOk' \in BOOLEAN
  BY DEF Look, Recorded, IsNews, TypeOK
<1> QED BY <1>1, <1>2, <1>3, <1>4 DEF Look, TypeOK, MaxAge

LEMMA NextType == TypeOK /\ [Next]_vars => TypeOK'
<1> SUFFICES ASSUME TypeOK, [Next]_vars PROVE TypeOK'
  OBVIOUS
<1>1. ASSUME NEW b \in Batteries, ControlRead(b) PROVE TypeOK'
  BY <1>1, EnterType DEF ControlRead, Controls, TypeOK
<1>2. CASE ProbeRead
  BY <1>2, EnterType, ConstantsInNat DEF ProbeRead
<1>3. ASSUME NEW t \in Controls, LeaderReads(t) PROVE TypeOK'
  BY <1>3 DEF LeaderReads, TypeOK, Stages, MaxAge
<1>4. ASSUME NEW t \in Controls, NEW o \in Outcomes, ControlReadEnds(t, o)
      PROVE  TypeOK'
  <2>1. pc' \in [Tasks -> Stages] /\ waitsFor' \in [Passives -> SUBSET Tasks]
    BY <1>4, ReleasedType, WaitsWithoutType DEF ControlReadEnds, TypeOK
  <2>2. lastValues' \in {"none", "answers", "empty"}
    BY <1>4 DEF ControlReadEnds, Remembered, Outcomes, TypeOK
  <2>3. readAge' \in 0..(MaxAge + 1) /\ sinceUpdate' \in 0..interval
        /\ quiet' \in 0..interval
    BY <1>4, ConstantsInNat DEF ControlReadEnds, Stamped, TypeOK
  <2>4. readFor' \in [Tasks -> 0..SourceTimeout]
    BY <1>4, ConstantsInNat DEF ControlReadEnds, TypeOK
  <2>5. lastOk' \in BOOLEAN /\ outage' \in BOOLEAN /\ pendingFetch' \in BOOLEAN
    BY <1>4 DEF ControlReadEnds
  <2> QED BY <1>4, <2>1, <2>2, <2>3, <2>4, <2>5
          DEF ControlReadEnds, TypeOK, MaxAge
<1>5. CASE ProbeTimesOut
  <2>1. pc' \in [Tasks -> Stages] /\ waitsFor' \in [Passives -> SUBSET Tasks]
    BY <1>5, ReleasedType, WaitsWithoutType DEF ProbeTimesOut, TypeOK
  <2>2. nap' \in 0..interval /\ pendingFetch' \in BOOLEAN
    BY <1>5, ConstantsInNat DEF ProbeTimesOut, TypeOK, Leads
  <2>3. readFor' \in [Tasks -> 0..SourceTimeout]
    BY <1>5, ConstantsInNat DEF ProbeTimesOut, TypeOK
  <2>4. quiet' \in 0..interval /\ cutOff' \in BOOLEAN
    BY <1>5, ConstantsInNat DEF ProbeTimesOut, CutsARead, TypeOK
  <2> QED BY <1>5, <2>1, <2>2, <2>3, <2>4 DEF ProbeTimesOut, TypeOK, MaxAge
<1>6. ASSUME NEW p \in Passives, PassiveRead(p) PROVE TypeOK'
  <2>1. 0 \in 0..Horizon /\ InFlight \in SUBSET Tasks
    BY ConstantsInNat DEF InFlight
  <2> QED BY <1>6, <2>1, LookType DEF PassiveRead
<1>7. ASSUME NEW p \in Passives, PassiveWakes(p) PROVE TypeOK'
  <2>1. asked[p] \in 0..Horizon /\ StillRunning(p) \in SUBSET Tasks
    BY DEF StillRunning, TypeOK
  <2> QED BY <1>7, <2>1, LookType DEF PassiveWakes
<1>8. ASSUME NEW p \in Passives, NEW o \in Outcomes, PassiveReadEnds(p, o)
      PROVE  TypeOK'
  <2>1. pc' \in [Tasks -> Stages] /\ waitsFor' \in [Passives -> SUBSET Tasks]
    BY <1>8, ReleasedType, WaitsWithoutType DEF PassiveReadEnds, TypeOK
  <2>2. readAge' \in 0..(MaxAge + 1)
    BY <1>8, ConstantsInNat DEF PassiveReadEnds, TypeOK
  <2>3. readFor' \in [Tasks -> 0..SourceTimeout]
    BY <1>8, ConstantsInNat DEF PassiveReadEnds, TypeOK
  <2>4. asked' \in [Passives -> 0..Horizon]
    BY <1>8, ConstantsInNat DEF PassiveReadEnds, TypeOK
  <2>5. lastAttempt' \in 0..Horizon /\ lastOk' \in BOOLEAN
    BY <1>8 DEF PassiveReadEnds, Recorded, TypeOK
  <2>6. outage' \in BOOLEAN
    BY <1>8 DEF PassiveReadEnds, TypeOK
  <2> QED BY <1>8, <2>1, <2>2, <2>3, <2>4, <2>5, <2>6
          DEF PassiveReadEnds, TypeOK, MaxAge
<1>9. CASE Tick
  <2>1. nap' \in 0..interval
    BY <1>9, ConstantsInNat DEF Tick, TypeOK
  <2>2. sinceUpdate' \in 0..interval /\ quiet' \in 0..interval
    BY <1>9, ConstantsInNat, AgedType DEF Tick, TypeOK
  <2>3. MaxAge + 1 \in Nat
    BY ConstantsInNat
  <2>4. readAge' \in 0..(MaxAge + 1)
    BY <1>9, <2>3, AgedType DEF Tick, TypeOK
  <2>5. readFor' \in [Tasks -> 0..SourceTimeout]
    BY <1>9, ConstantsInNat, AgedType DEF Tick, TypeOK
  <2>6. asked' \in [Passives -> 0..Horizon]
    <3>1. asked' = [p \in Passives |-> IF pc[p] = "idle" THEN 0 ELSE Aged(asked[p], Horizon)]
      BY <1>9 DEF Tick
    <3>2. asked \in [Passives -> 0..Horizon] /\ Horizon \in Nat
      BY ConstantsInNat DEF TypeOK
    <3>3. \A p \in Passives : Aged(asked[p], Horizon) \in 0..Horizon
      BY <3>2 DEF Aged
    <3> QED BY <3>1, <3>2, <3>3
  <2>7. probeFor' \in 0..ProbeTimeout /\ lastAttempt' \in 0..Horizon
    BY <1>9, ConstantsInNat, AgedType DEF Tick, TypeOK
  <2> QED BY <1>9, <2>1, <2>2, <2>4, <2>5, <2>6, <2>7 DEF Tick, TypeOK, MaxAge
<1>10. CASE UNCHANGED vars
  BY <1>10 DEF vars, TypeOK, MaxAge
<1> QED BY <1>1, <1>2, <1>3, <1>4, <1>5, <1>6, <1>7, <1>8, <1>9, <1>10 DEF Next

\* Every variable of the chain keeps its type.
THEOREM TypeCorrect == Spec => []TypeOK
BY InitType, NextType, PTL DEF Spec

-----------------------------------------------------------------------------
(* The future and its leader. *)

\* The stamp is the end of the last read, unless that one was cut off; a throttled
\* task sleeps for what is left of the interval since the stamp, no less; without
\* a throttle nobody sleeps.
Paced ==
    /\ ~cutOff => sinceUpdate = quiet
    /\ \A t \in Controls :
          pc[t] = "sleeps" => Throttled /\ nap + sinceUpdate >= interval

IInv == TypeOK /\ PendingIsLed /\ Paced

LEMMA InitInductive == Init => IInv
BY InitType DEF Init, IInv, PendingIsLed, Paced, Leads, Followers,
   Controls, Tasks

\* Entering the chain makes a leader exactly where there was none.
LEMMA EnterInductive ==
    ASSUME IInv, TypeOK', NEW t \in Controls, Enter(t)
    PROVE  IInv'
<1> USE DEF IInv
<1>1. pc \in [Tasks -> Stages] /\ t \in Tasks /\ interval \in Nat
      /\ sinceUpdate \in 0..interval /\ nap \in 0..interval
  BY ConstantsInNat DEF TypeOK
<1>2. /\ pc'[t] = FirstStage
      /\ \A u \in Controls : u # t => pc'[u] = pc[u]
      /\ pc[t] = "idle"
      /\ UNCHANGED <<interval, sinceUpdate, quiet, cutOff>>
      /\ pendingFetch' = (pendingFetch \/ Throttled)
      /\ nap' = IF FirstStage = "sleeps" THEN interval - sinceUpdate ELSE nap
  BY <1>1, ConstantsInNat DEF Enter
<1>3. ~Leads(t) /\ \A u \in Controls : u # t => (Leads(u))' = Leads(u)
  BY <1>2 DEF Leads, Throttled
<1>4. CASE ~Throttled
  <2>1. FirstStage = "reads"
    BY <1>4 DEF FirstStage
  <2>2. ~pendingFetch /\ ~pendingFetch' /\ \A u \in Controls : ~(Leads(u))'
    BY <1>2, <1>4 DEF PendingIsLed, Leads, Throttled
  <2>3. \A u \in Controls : pc'[u] # "follows"
    BY <1>2, <2>1, <2>2 DEF PendingIsLed, Followers
  <2> QED BY <1>2, <2>1, <2>2, <2>3 DEF PendingIsLed, Followers, Paced, Throttled
<1>5. CASE Throttled /\ pendingFetch
  <2>1. FirstStage = "follows"
    BY <1>5 DEF FirstStage
  <2>2. ~(Leads(t))' /\ pendingFetch'
    BY <1>2, <1>5, <2>1 DEF Leads
  <2> QED BY <1>2, <1>3, <1>5, <2>1, <2>2
          DEF PendingIsLed, Followers, Paced, Throttled
<1>6. CASE Throttled /\ ~pendingFetch
  <2>1. FirstStage \in {"sleeps", "reads"}
        /\ (FirstStage = "sleeps" => nap' + sinceUpdate' >= interval)
    BY <1>1, <1>2, <1>6 DEF FirstStage
  <2>2. (Leads(t))' /\ pendingFetch' /\ \A u \in Controls : ~Leads(u)
    BY <1>2, <1>6, <2>1 DEF Leads, Throttled, PendingIsLed
  <2>3. \A u \in Controls : pc'[u] = "sleeps" => u = t
    BY <1>2, <1>6, <2>2 DEF Leads
  <2>4. PendingIsLed'
    BY <1>3, <2>2 DEF PendingIsLed
  <2> QED BY <1>2, <1>6, <2>1, <2>3, <2>4 DEF Paced, Throttled
<1> QED BY <1>4, <1>5, <1>6

\* A read that is over for the tasks `ended`, all of them on the chain, leaves
\* the other battery tasks where they are.
LEMMA ReleasedControls ==
    ASSUME NEW t, NEW ended, NEW u \in Controls, pc' = Released(t, ended)
    PROVE  pc'[u] = IF u \in ended THEN "idle" ELSE pc[u]
BY ChainAssumption DEF Released, Tasks

\* What a step does not touch of a task's place in the chain.
LEMMA SamePlaces ==
    ASSUME IInv, TypeOK', \A u \in Controls : pc'[u] = pc[u],
           UNCHANGED <<interval, pendingFetch, nap, sinceUpdate, quiet, cutOff>>
    PROVE  IInv'
BY DEF IInv, PendingIsLed, Paced, Leads, Followers, Throttled

LEMMA NextInductive == IInv /\ [Next]_vars => IInv'
<1> SUFFICES ASSUME IInv, [Next]_vars PROVE IInv'
  OBVIOUS
<1>0. TypeOK /\ TypeOK'
  BY NextType DEF IInv
<1> USE <1>0
<1>1. ASSUME NEW b \in Batteries, ControlRead(b) PROVE IInv'
  BY <1>1, EnterInductive DEF ControlRead, Controls
<1>2. CASE ProbeRead
  BY <1>2, EnterInductive, ConstantsInNat DEF ProbeRead
<1>3. ASSUME NEW t \in Controls, LeaderReads(t) PROVE IInv'
  <2>1. pc[t] = "sleeps" /\ pc'[t] = "reads"
        /\ \A u \in Controls : u # t => pc'[u] = pc[u]
    BY <1>3, ConstantsInNat DEF LeaderReads, TypeOK
  <2>2. UNCHANGED <<interval, pendingFetch, nap, sinceUpdate, quiet, cutOff>>
    BY <1>3 DEF LeaderReads
  <2> QED BY <2>1, <2>2 DEF IInv, PendingIsLed, Paced, Leads, Followers, Throttled
<1>4. ASSUME NEW t \in Controls, NEW o \in Outcomes, ControlReadEnds(t, o)
      PROVE  IInv'
  <2>1. pc[t] = "reads" /\ ~pendingFetch' /\ UNCHANGED interval
        /\ sinceUpdate' = 0 /\ quiet' = 0 /\ cutOff' = FALSE
    BY <1>4 DEF ControlReadEnds, Stamped
  <2>2. \A u \in Controls : pc'[u] = IF u \in Answered(t) THEN "idle" ELSE pc[u]
    BY <1>4, ReleasedControls DEF ControlReadEnds
  <2>3. \A u \in Controls : pc'[u] # "sleeps" /\ pc'[u] # "follows" /\ ~(Leads(u))'
    BY <2>1, <2>2 DEF IInv, PendingIsLed, Paced, Answered, Leads, Followers, Throttled
  <2> QED BY <2>1, <2>3 DEF IInv, PendingIsLed, Paced, Followers
<1>5. CASE ProbeTimesOut
  <2>1. Probe \in Controls /\ UNCHANGED <<interval, sinceUpdate>>
        /\ (~cutOff' => ~cutOff /\ quiet' = quiet)
        /\ pendingFetch' = (pendingFetch /\ ~Leads(Probe))
        /\ nap' = IF Leads(Probe) THEN 0 ELSE nap
    BY <1>5, ConstantsInNat DEF ProbeTimesOut
  <2>2. \A u \in Controls :
           pc'[u] = IF u \in Answered(Probe) THEN "idle" ELSE pc[u]
    BY <1>5, ReleasedControls DEF ProbeTimesOut, Cancelled
  <2>3. CASE Leads(Probe)
    <3>1. \A u \in Controls :
             pc'[u] # "sleeps" /\ pc'[u] # "follows" /\ ~(Leads(u))'
      BY <2>1, <2>2, <2>3
         DEF IInv, PendingIsLed, Paced, Answered, Leads, Followers, Throttled
    <3> QED BY <2>1, <2>3, <3>1 DEF IInv, PendingIsLed, Paced, Followers
  <2>4. CASE ~Leads(Probe)
    <3>1. \A u \in Controls : pc'[u] = IF u = Probe THEN "idle" ELSE pc[u]
      BY <2>2, <2>4 DEF Answered
    <3>2. \A u \in Controls : (Leads(u))' = Leads(u)
      BY <2>1, <2>4, <3>1 DEF Leads, Throttled
    <3> QED BY <2>1, <2>4, <3>1, <3>2
            DEF IInv, PendingIsLed, Paced, Followers, Throttled
  <2> QED BY <2>3, <2>4
<1>6. ASSUME NEW p \in Passives, NEW age, NEW running, Look(p, age, running)
      PROVE  IInv'
  <2>1. \A u \in Controls : pc'[u] = pc[u]
    BY <1>6, ChainAssumption, ConstantsInNat DEF Look, TypeOK
  <2> QED BY <1>6, <2>1, SamePlaces DEF Look
<1>7. ASSUME NEW p \in Passives, PassiveRead(p) \/ PassiveWakes(p) PROVE IInv'
  BY <1>6, <1>7 DEF PassiveRead, PassiveWakes
<1>8. ASSUME NEW p \in Passives, NEW o \in Outcomes, PassiveReadEnds(p, o)
      PROVE  IInv'
  <2>1. \A u \in Controls : u \notin {p}
    BY ChainAssumption
  <2>2. pc' = Released(p, {p})
    BY <1>8 DEF PassiveReadEnds
  <2>3. \A u \in Controls : pc'[u] = pc[u]
    BY <2>1, <2>2, ReleasedControls
  <2> QED BY <1>8, <2>3, SamePlaces DEF PassiveReadEnds
<1>9. CASE Tick
  <2>1. UNCHANGED <<interval, pc, pendingFetch>>
    BY <1>9 DEF Tick
  <2>2. interval \in Nat /\ nap \in 0..interval /\ sinceUpdate \in 0..interval
        /\ quiet \in 0..interval
    BY ConstantsInNat DEF TypeOK
  <2>3. ~cutOff' => sinceUpdate' = quiet'
    BY <1>9 DEF Tick, IInv, Paced
  <2>4. nap + sinceUpdate >= interval /\ nap > 0 => nap' + sinceUpdate' >= interval
    BY <1>9, <2>2 DEF Tick, Aged
  <2>5. \A t \in Controls : pc[t] = "sleeps" => nap > 0
    BY <1>9 DEF Tick, NothingDue
  <2> QED BY <2>1, <2>3, <2>4, <2>5
          DEF IInv, PendingIsLed, Paced, Leads, Followers, Throttled
<1>10. CASE UNCHANGED vars
  BY <1>10, SamePlaces DEF vars
<1> QED BY <1>1, <1>2, <1>3, <1>4, <1>5, <1>7, <1>8, <1>9, <1>10 DEF Next

\* Nobody ever follows a future that no task works on, and never do two tasks
\* work on one, through every cancellation and failure.
THEOREM FutureIsLed == Spec => []PendingIsLed
<1>1. IInv => PendingIsLed
  BY DEF IInv
<1> QED BY <1>1, InitInductive, NextInductive, PTL DEF Spec

\* A throttled read of the source starts an interval after the end of the last
\* one at the soonest, whoever led it and whether it worked or not, unless that
\* last one was cut off by the probe's timeout (throttling.py).
THEOREM ThrottlePaces == Spec => ThrottleHolds
<1> DEFINE Step == \A t \in Controls :
          Throttled /\ pc[t] # "reads" /\ pc'[t] = "reads"
            => quiet >= interval \/ cutOff
<1>1. ASSUME IInv, [Next]_vars PROVE Step
  <2> SUFFICES ASSUME NEW t \in Controls, Throttled, pc[t] # "reads",
                      pc'[t] = "reads"
               PROVE  quiet >= interval \/ cutOff
    OBVIOUS
  <2>0. /\ t \in Tasks /\ t \notin Passives /\ pc \in [Tasks -> Stages]
        /\ interval \in Nat /\ sinceUpdate \in 0..interval /\ nap \in 0..interval
        /\ (~cutOff => sinceUpdate = quiet)
    BY <1>1, ConstantsInNat, ChainAssumption DEF IInv, TypeOK, Paced
  <2>1. ASSUME NEW u \in Controls, Enter(u) PROVE quiet >= interval \/ cutOff
    <3>1. u = t /\ FirstStage = "reads"
      BY <2>0, <2>1, ConstantsInNat, <1>1 DEF Enter, IInv
    <3> QED BY <2>0, <3>1 DEF FirstStage
  <2>2. ASSUME NEW b \in Batteries, ControlRead(b) PROVE quiet >= interval \/ cutOff
    BY <2>1, <2>2 DEF ControlRead, Controls
  <2>3. CASE ProbeRead
    BY <2>1, <2>3 DEF ProbeRead, Controls
  <2>4. ASSUME NEW u \in Controls, LeaderReads(u) PROVE quiet >= interval \/ cutOff
    <3>1. pc[t] = "sleeps" /\ nap = 0
      BY <2>0, <2>4 DEF LeaderReads
    <3> QED BY <1>1, <2>0, <3>1 DEF IInv, Paced
  <2>5. ASSUME NEW u, NEW ended, pc' = Released(u, ended) PROVE FALSE
    BY <2>5, ReleasedControls
  <2>6. ASSUME NEW u \in Controls, NEW o \in Outcomes, ControlReadEnds(u, o)
        PROVE  FALSE
    BY <2>5, <2>6 DEF ControlReadEnds
  <2>7. CASE ProbeTimesOut
    BY <2>5, <2>7 DEF ProbeTimesOut
  <2>8. ASSUME NEW p \in Passives, PassiveRead(p) \/ PassiveWakes(p) PROVE FALSE
    BY <2>0, <2>8 DEF PassiveRead, PassiveWakes, Look
  <2>9. ASSUME NEW p \in Passives, NEW o \in Outcomes, PassiveReadEnds(p, o)
        PROVE  FALSE
    BY <2>5, <2>9 DEF PassiveReadEnds
  <2>10. CASE Tick \/ UNCHANGED vars
    BY <2>10 DEF Tick, vars
  <2> QED BY <1>1, <2>2, <2>3, <2>4, <2>6, <2>7, <2>8, <2>9, <2>10 DEF Next
<1>2. Spec => []IInv
  BY InitInductive, NextInductive, PTL DEF Spec
<1>3. IInv /\ [Next]_vars => Step
  BY <1>1
<1>4. Spec => [][Step]_vars
  <2>1. IInv /\ [Next]_vars => [Step]_vars
    BY <1>3
  <2> QED BY <1>2, <2>1, PTL DEF Spec
<1> QED BY <1>4 DEF ThrottleHolds

-----------------------------------------------------------------------------
(* Health. *)

LEMMA NextHides == TypeOK /\ OnlyTheThrottleHides /\ [Next]_vars => OnlyTheThrottleHides'
<1> SUFFICES ASSUME TypeOK, OnlyTheThrottleHides, [Next]_vars
             PROVE  OnlyTheThrottleHides'
  OBVIOUS
<1> USE DEF OnlyTheThrottleHides, Throttled
<1>1. ASSUME UNCHANGED <<interval, lastValues, lastOk, outage>>
      PROVE  OnlyTheThrottleHides'
  BY <1>1
<1>2. ASSUME NEW t \in Controls, NEW o \in Outcomes, ControlReadEnds(t, o)
      PROVE  OnlyTheThrottleHides'
  BY <1>2 DEF ControlReadEnds, Delivered, Remembered, Outcomes
<1>3. ASSUME NEW p \in Passives, NEW age, NEW running, Look(p, age, running)
      PROVE  OnlyTheThrottleHides'
  BY <1>1, <1>3 DEF Look, Recorded, IsNews
<1>4. ASSUME NEW p \in Passives, NEW o \in Outcomes, PassiveReadEnds(p, o)
      PROVE  OnlyTheThrottleHides'
  BY <1>4 DEF PassiveReadEnds, Recorded, IsNews
<1>5. ASSUME NEW t \in Controls, Enter(t) PROVE OnlyTheThrottleHides'
  BY <1>5 DEF Enter
<1>6. ASSUME NEW b \in Batteries, ControlRead(b) PROVE OnlyTheThrottleHides'
  BY <1>5, <1>6 DEF ControlRead, Controls
<1>7. CASE ProbeRead
  BY <1>5, <1>7 DEF ProbeRead, Controls
<1>8. ASSUME NEW t \in Controls, LeaderReads(t) PROVE OnlyTheThrottleHides'
  BY <1>8 DEF LeaderReads
<1>9. CASE ProbeTimesOut \/ Tick \/ UNCHANGED vars
  BY <1>9 DEF ProbeTimesOut, Tick, vars
<1>10. ASSUME NEW p \in Passives, PassiveRead(p) \/ PassiveWakes(p)
       PROVE  OnlyTheThrottleHides'
  BY <1>3, <1>10 DEF PassiveRead, PassiveWakes
<1> QED BY <1>2, <1>4, <1>6, <1>7, <1>8, <1>9, <1>10 DEF Next

\* Without a throttle that has something to serve, the recorded outcome of a
\* failing source is never good, whatever passive readers are served meanwhile.
THEOREM OutageIsRecorded == Spec => []OnlyTheThrottleHides
<1>1. Init => OnlyTheThrottleHides
  BY DEF Init, OnlyTheThrottleHides
<1> QED BY <1>1, NextHides, TypeCorrect, PTL DEF Spec

\* The last attempt only ages or is replaced by a newer one, so a slow passive
\* read that ends late makes no meter look idle.
THEOREM NewerAttemptStands == Spec => AttemptsMoveForward
<1> DEFINE Step == lastAttempt' > lastAttempt
                     => lastAttempt' = lastAttempt + 1 /\ pc' = pc
<1>1. ASSUME TypeOK, [Next]_vars PROVE Step
  <2>0. lastAttempt \in 0..Horizon /\ lastAttempt' \in 0..Horizon /\ Horizon \in Nat
    BY <1>1, NextType, ConstantsInNat DEF TypeOK
  <2>1. CASE lastAttempt' <= lastAttempt
    BY <2>0, <2>1
  <2>2. ASSUME NEW t \in Controls, Enter(t) PROVE lastAttempt' <= lastAttempt
    BY <2>0, <2>2 DEF Enter
  <2>3. ASSUME NEW age \in Nat, NEW reached, NEW ok, Recorded(age, reached, ok)
        PROVE  lastAttempt' <= lastAttempt
    BY <2>0, <2>3 DEF Recorded, IsNews
  <2>4. ASSUME NEW p \in Passives, NEW age \in Nat, NEW running, Look(p, age, running)
        PROVE  lastAttempt' <= lastAttempt
    <3>1. CASE Fresh
      BY <2>3, <2>4, <3>1 DEF Look
    <3>2. CASE ~Fresh
      BY <2>0, <2>4, <3>2 DEF Look
    <3> QED BY <3>1, <3>2
  <2>5. \A p \in Passives : asked[p] \in Nat
    BY <1>1, <2>0 DEF TypeOK
  <2>6. ASSUME NEW p \in Passives, NEW o \in Outcomes, PassiveReadEnds(p, o)
        PROVE  lastAttempt' <= lastAttempt
    BY <2>3, <2>5, <2>6 DEF PassiveReadEnds
  <2>7. ASSUME NEW p \in Passives, PassiveRead(p) \/ PassiveWakes(p)
        PROVE  lastAttempt' <= lastAttempt
    BY <2>4, <2>5, <2>7 DEF PassiveRead, PassiveWakes
  <2>8. ASSUME NEW b \in Batteries, ControlRead(b)
        PROVE  lastAttempt' <= lastAttempt
    BY <2>2, <2>8 DEF ControlRead, Controls
  <2>9. CASE ProbeRead
    BY <2>1, <2>2, <2>9 DEF ProbeRead, Controls
  <2>10. CASE Tick
    BY <2>0, <2>10 DEF Tick, Aged
  <2>11. ASSUME NEW t \in Controls, NEW o \in Outcomes,
                ControlReadEnds(t, o)
         PROVE  lastAttempt' <= lastAttempt
    BY <2>0, <2>11 DEF ControlReadEnds
  <2>12. ASSUME NEW t \in Controls, LeaderReads(t) PROVE lastAttempt' <= lastAttempt
    BY <2>0, <2>12 DEF LeaderReads
  <2>13. CASE ProbeTimesOut \/ UNCHANGED vars
    BY <2>0, <2>13 DEF ProbeTimesOut, vars
  <2> QED BY <1>1, <2>1, <2>6, <2>7, <2>8, <2>9, <2>10, <2>11, <2>12, <2>13 DEF Next
<1>2. TypeOK /\ [Next]_vars => [Step]_vars
  BY <1>1
<1> QED BY <1>2, TypeCorrect, PTL DEF Spec, AttemptsMoveForward
=============================================================================
