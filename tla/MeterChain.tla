----------------------------- MODULE MeterChain -----------------------------
(***************************************************************************)
(* One polled meter and the wrappers the config loader puts around it, as  *)
(* the tasks that read it at the same time see them:                       *)
(*                                                                         *)
(*   HealthTracking ( Throttled ( LastReading ( source ) ) )               *)
(*                                                                         *)
(* Batteries' polls and the health probe read through the whole chain.     *)
(* With a throttle, the first of them LEADS: it sleeps out the interval    *)
(* and reads the source, and those that come meanwhile FOLLOW its future.  *)
(* Without one their reads of the source overlap.  Passive readers (the    *)
(* Marstek app, cloud reporting) go round the throttle: they are served    *)
(* the last reading, wait for the reads running when they came, or read.   *)
(* The probe gives up after a timeout and so cancels whatever it does.     *)
(*                                                                         *)
(* Data.  A reading is how it came about: the source "answers", answers    *)
(* "empty" or "raises".  Times are ages in ticks that stop growing where   *)
(* no decision tells them apart any more; a time that is None is an age    *)
(* at that cap, which every decision treats alike.  The filters between    *)
(* the throttle and the health wrapper await nothing and are left out; a   *)
(* push meter answers from memory and has none of this.                    *)
(***************************************************************************)
EXTENDS Naturals

CONSTANTS
    Batteries,      \* tasks of battery polls, one per battery
    Probe,          \* the task of the health loop
    Passives,       \* tasks of passive readers
    Intervals,      \* the THROTTLE_INTERVALs to consider; 0 is no throttle
    IdleThreshold,  \* POWERMETER_IDLE_THRESHOLD
    ProbeTimeout,   \* POWERMETER_PROBE_TIMEOUT
    PassiveMaxAge,  \* PASSIVE_READING_MAX_AGE_S
    SourceTimeout,  \* how long the source's own client waits for an answer
    Horizon         \* ages of attempts stop here

Controls == Batteries \cup {Probe}
Tasks == Controls \cup Passives

ASSUME ChainAssumption ==
    /\ Controls \cap Passives = {}
    /\ Intervals \subseteq Nat
    /\ IdleThreshold \in Nat
    /\ ProbeTimeout \in Nat
    /\ PassiveMaxAge \in Nat
    /\ SourceTimeout \in Nat
    /\ Horizon \in Nat
    /\ Horizon > IdleThreshold
    /\ Horizon > 2 * SourceTimeout

VARIABLES
    interval,      \* throttle_interval, fixed by the configuration
    pc,            \* where each task is in its read
    pendingFetch,  \* _pending_fetch is a future
    nap,           \* what is left of the leader's sleep
    sinceUpdate,   \* age of _last_update_time
    lastValues,    \* _last_values of the throttle, "none" before the first
    readAge,       \* age of _values of the last-reading wrapper
    readFor,       \* how long each task has been reading the source
    waitsFor,      \* the reads in flight a passive reader waits for
    asked,         \* age of each passive read
    probeFor,      \* how long the probe has been under way
    lastAttempt,   \* age of _last_attempt
    lastOk,        \* _last_outcome_ok
    outage,        \* history: the last control read of the source failed,
                   \* and the source has answered nobody since
    quiet,         \* history: age of the end of the last control read of the
                   \* source, however it ended
    cutOff         \* history: it was cut off by the probe's timeout

vars == <<interval, pc, pendingFetch, nap, sinceUpdate, lastValues, readAge,
          readFor, waitsFor, asked, probeFor, lastAttempt, lastOk, outage, quiet, cutOff>>

Outcomes == {"answers", "empty", "raises"}
Stages == {"idle", "follows", "sleeps", "reads", "waits", "woken"}

Throttled == interval > 0
MaxAge == PassiveMaxAge + interval

Aged(age, cap) == IF age < cap THEN age + 1 ELSE cap

Fresh == readAge <= MaxAge

\* The reads of the source in flight, and the callers on the leader's future.
InFlight == {t \in Tasks : pc[t] = "reads"}
Followers == {t \in Controls : pc[t] = "follows"}

Leads(t) == Throttled /\ t \in Controls /\ pc[t] \in {"sleeps", "reads"}

Init ==
    /\ interval \in Intervals
    /\ pc = [t \in Tasks |-> "idle"]
    /\ pendingFetch = FALSE
    /\ nap = 0
    /\ sinceUpdate = interval
    /\ lastValues = "none"
    /\ readAge = MaxAge + 1
    /\ readFor = [t \in Tasks |-> 0]
    /\ waitsFor = [p \in Passives |-> {}]
    /\ asked = [p \in Passives |-> 0]
    /\ probeFor = 0
    /\ lastAttempt = Horizon
    /\ lastOk = FALSE
    /\ outage = FALSE
    /\ quiet = interval
    /\ cutOff = FALSE

-----------------------------------------------------------------------------
(* Reads through the whole chain. *)

\* How far a caller of the throttle gets before its first await.
FirstStage ==
    CASE ~Throttled                            -> "reads"
      [] Throttled /\ pendingFetch             -> "follows"
      [] Throttled /\ ~pendingFetch
                   /\ sinceUpdate < interval   -> "sleeps"
      [] OTHER                                 -> "reads"

Enter(t) ==
    /\ pc[t] = "idle"
    /\ pc' = [pc EXCEPT ![t] = FirstStage]
    /\ pendingFetch' = (pendingFetch \/ Throttled)
    /\ nap' = IF FirstStage = "sleeps" THEN interval - sinceUpdate ELSE nap
    /\ lastAttempt' = 0
    /\ UNCHANGED <<interval, sinceUpdate, lastValues, readAge, readFor, waitsFor,
                   asked, lastOk, outage, quiet, cutOff>>

\* A battery's poll: the emulator has one handler per battery.
ControlRead(b) ==
    /\ Enter(b)
    /\ UNCHANGED probeFor

\* The health loop probes a meter nobody has tried to read lately.
ProbeRead ==
    /\ lastAttempt > IdleThreshold
    /\ Enter(Probe)
    /\ probeFor' = 0

\* The leader has slept out the interval.
LeaderReads(t) ==
    /\ pc[t] = "sleeps"
    /\ nap = 0
    /\ pc' = [pc EXCEPT ![t] = "reads"]
    /\ UNCHANGED <<interval, pendingFetch, nap, sinceUpdate, lastValues, readAge,
                   readFor, waitsFor, asked, probeFor, lastAttempt, lastOk, outage,
                   quiet, cutOff>>

\* Everyone a read of t answers: a leader answers its followers too.
Answered(t) == IF Leads(t) THEN Followers \cup {t} ELSE {t}

\* A read of t is over for the tasks `ended`; who waited for it looks again.
Released(t, ended) ==
    [s \in Tasks |->
        CASE s \in ended                                          -> "idle"
          [] s \in Passives /\ pc[s] = "waits" /\ t \in waitsFor[s] -> "woken"
          [] OTHER                                                -> pc[s]]

WaitsWithout(t) == [p \in Passives |-> waitsFor[p] \ {t}]

\* What the throttle hands up: its last values hide a failure of the source.
Delivered(o) == IF Throttled /\ o = "raises" /\ lastValues # "none"
                THEN lastValues ELSE o

\* What the throttle keeps to serve later: what the source gave, were it empty.
Remembered(o) == IF Throttled /\ o # "raises" THEN o ELSE lastValues

\* Only a read that worked is stamped (mutant).
StampsSuccess(o) == IF o = "raises" THEN sinceUpdate ELSE 0

\* The throttle stamps a failure as well, so that it paces the retry.
Stamped(o) == 0

\* The source is done with a battery's or the probe's read.
ControlReadEnds(t, o) ==
    /\ pc[t] = "reads"
    /\ pc' = Released(t, Answered(t))
    /\ waitsFor' = WaitsWithout(t)
    /\ pendingFetch' = FALSE
    /\ sinceUpdate' = Stamped(o)
    /\ lastValues' = Remembered(o)
    /\ readAge' = IF o = "answers" THEN 0 ELSE readAge
    /\ readFor' = [readFor EXCEPT ![t] = 0]
    /\ lastOk' = (Delivered(o) = "answers")
    /\ outage' = (o # "answers")
    /\ quiet' = 0
    /\ cutOff' = FALSE
    /\ UNCHANGED <<interval, nap, asked, probeFor, lastAttempt>>

\* The cancelled leader leaves its future unsettled (mutant).
CancelsItself == {Probe}

\* Whom the probe's timeout cancels: a follower is shielded from its leader's
\* future, a leader takes the future and everyone on it along.
Cancelled == Answered(Probe)

\* History: the source is being asked, for the throttle, when the probe gives up.
CutsARead == Throttled /\ pc[Probe] = "reads"

ProbeTimesOut ==
    /\ pc[Probe] # "idle"
    /\ probeFor = ProbeTimeout
    /\ pc' = Released(Probe, Cancelled)
    /\ waitsFor' = WaitsWithout(Probe)
    /\ pendingFetch' = (pendingFetch /\ ~Leads(Probe))
    /\ nap' = IF Leads(Probe) THEN 0 ELSE nap
    /\ readFor' = [readFor EXCEPT ![Probe] = 0]
    /\ quiet' = IF CutsARead THEN 0 ELSE quiet
    /\ cutOff' = (cutOff \/ CutsARead)
    /\ UNCHANGED <<interval, sinceUpdate, lastValues, readAge, asked, probeFor,
                   lastAttempt, lastOk, outage>>

-----------------------------------------------------------------------------
(* Passive reads. *)

\* A reading served from the cache recorded as well (mutant).
CacheIsNews(age, reached) == age <= lastAttempt

\* Whether a passive read asked `age` ago is news: the source gave it the
\* answer, and no read that began later has been recorded.
IsNews(age, reached) == reached /\ age <= lastAttempt

Recorded(age, reached, ok) ==
    /\ lastAttempt' = IF IsNews(age, reached) THEN age ELSE lastAttempt
    /\ lastOk' = IF IsNews(age, reached) THEN ok ELSE lastOk

\* One turn of the passive reader's loop, with these reads still running.
Look(p, age, running) ==
    /\ pc' = [pc EXCEPT ![p] = IF Fresh THEN "idle"
                               ELSE IF running = {} THEN "reads" ELSE "waits"]
    /\ waitsFor' = [waitsFor EXCEPT ![p] = IF Fresh THEN {} ELSE running]
    /\ asked' = [asked EXCEPT ![p] = IF Fresh THEN 0 ELSE age]
    /\ IF Fresh THEN Recorded(age, FALSE, TRUE) ELSE UNCHANGED <<lastAttempt, lastOk>>
    /\ UNCHANGED <<interval, pendingFetch, nap, sinceUpdate, lastValues, readAge,
                   readFor, probeFor, outage, quiet, cutOff>>

PassiveRead(p) ==
    /\ pc[p] = "idle"
    /\ Look(p, 0, InFlight)

\* It waits for whatever is running now (mutant).
RunningNow(p) == InFlight

\* It waits on for those of the reads it found running, and for no later one.
StillRunning(p) == waitsFor[p]

PassiveWakes(p) ==
    /\ pc[p] = "woken"
    /\ Look(p, asked[p], StillRunning(p))

\* The source is done with a passive reader's own read.
PassiveReadEnds(p, o) ==
    /\ pc[p] = "reads"
    /\ pc' = Released(p, {p})
    /\ waitsFor' = WaitsWithout(p)
    /\ readAge' = IF o = "answers" THEN 0 ELSE readAge
    /\ readFor' = [readFor EXCEPT ![p] = 0]
    /\ asked' = [asked EXCEPT ![p] = 0]
    /\ Recorded(asked[p], TRUE, o = "answers")
    /\ outage' = (outage /\ o # "answers")
    /\ UNCHANGED <<interval, pendingFetch, nap, sinceUpdate, lastValues, probeFor,
                   quiet, cutOff>>

-----------------------------------------------------------------------------
(* Time.  The event loop runs what is ready before it waits, and the source's *)
(* client, the sleep and the probe's timeout all end when they are due.       *)

NothingDue ==
    /\ \A p \in Passives : pc[p] # "woken"
    /\ \A t \in Controls : pc[t] = "sleeps" => nap > 0
    /\ \A t \in InFlight : readFor[t] < SourceTimeout
    /\ pc[Probe] # "idle" => probeFor < ProbeTimeout

Tick ==
    /\ NothingDue
    /\ nap' = IF nap > 0 THEN nap - 1 ELSE 0
    /\ sinceUpdate' = Aged(sinceUpdate, interval)
    /\ quiet' = Aged(quiet, interval)
    /\ readAge' = Aged(readAge, MaxAge + 1)
    /\ readFor' = [t \in Tasks |-> IF t \in InFlight
                                   THEN Aged(readFor[t], SourceTimeout) ELSE 0]
    /\ asked' = [p \in Passives |-> IF pc[p] = "idle"
                                    THEN 0 ELSE Aged(asked[p], Horizon)]
    /\ probeFor' = IF pc[Probe] = "idle" THEN 0 ELSE Aged(probeFor, ProbeTimeout)
    /\ lastAttempt' = Aged(lastAttempt, Horizon)
    /\ UNCHANGED <<interval, pc, pendingFetch, lastValues, waitsFor, lastOk, outage,
                   cutOff>>

Next ==
    \/ \E b \in Batteries : ControlRead(b)
    \/ ProbeRead
    \/ \E t \in Controls : LeaderReads(t)
    \/ \E t \in Controls, o \in Outcomes : ControlReadEnds(t, o)
    \/ ProbeTimesOut
    \/ \E p \in Passives : PassiveRead(p)
    \/ \E p \in Passives : PassiveWakes(p)
    \/ \E p \in Passives, o \in Outcomes : PassiveReadEnds(p, o)
    \/ Tick

Spec == Init /\ [][Next]_vars

\* Nobody has to ask; a task that can go on goes on.  Time passes however many
\* reads come and go in an instant, hence the strong fairness of Tick.
Fairness ==
    /\ SF_vars(Tick)
    /\ WF_vars(ProbeTimesOut)
    /\ \A t \in Controls : WF_vars(LeaderReads(t))
    /\ \A t \in Controls : WF_vars(\E o \in Outcomes : ControlReadEnds(t, o))
    /\ \A p \in Passives : WF_vars(PassiveWakes(p))
    /\ \A p \in Passives : WF_vars(\E o \in Outcomes : PassiveReadEnds(p, o))

FairSpec == Spec /\ Fairness

-----------------------------------------------------------------------------
(* Properties. *)

\* The state stays in its types: ages within their caps, waits over tasks.
TypeOK ==
    /\ interval \in Intervals
    /\ pc \in [Tasks -> Stages]
    /\ pendingFetch \in BOOLEAN
    /\ nap \in 0..interval
    /\ sinceUpdate \in 0..interval
    /\ lastValues \in {"none", "answers", "empty"}
    /\ readAge \in 0..(MaxAge + 1)
    /\ readFor \in [Tasks -> 0..SourceTimeout]
    /\ waitsFor \in [Passives -> SUBSET Tasks]
    /\ asked \in [Passives -> 0..Horizon]
    /\ probeFor \in 0..ProbeTimeout
    /\ lastAttempt \in 0..Horizon
    /\ lastOk \in BOOLEAN
    /\ outage \in BOOLEAN
    /\ quiet \in 0..interval
    /\ cutOff \in BOOLEAN

\* Whatever is cancelled or fails, the future is there exactly while one task,
\* and only one, works on it, and so nobody follows a future that no task will
\* ever settle (throttling.py, get_powermeter_watts).
PendingIsLed ==
    /\ pendingFetch <=> \E t \in Controls : Leads(t)
    /\ \A t, u \in Controls : Leads(t) /\ Leads(u) => t = u
    /\ Followers # {} => pendingFetch

\* A throttled read reaches the source only an interval after the end of the
\* one before it, the failed ones included ("avoids hammering a failing
\* source", throttling.py), whoever led it.  One read is not covered: the next
\* after one that the probe's timeout cut off at the source.  A cancelled leader
\* stamps no time, so that one goes out at once, against the class's own
\* "enforcing a minimum interval between power meter readings"; it is stamped
\* again, and the interval holds from there.
ThrottleHolds ==
    [][\A t \in Controls :
          Throttled /\ pc[t] # "reads" /\ pc'[t] = "reads"
            => quiet >= interval \/ cutOff]_vars

\* The recorded outcome is good while the source is failing only where the
\* throttle serves its last values instead of the failure: neither a passive
\* reader served from the cache nor one that was overtaken papers over an
\* outage (health.py, get_passive_watts).
OnlyTheThrottleHides ==
    lastOk /\ outage => Throttled /\ lastValues = "answers"

\* The last attempt never moves back, so a meter that is read does not look
\* idle because a slow passive read ended late (health.py, _record_attempt).
AttemptsMoveForward ==
    [][lastAttempt' > lastAttempt => lastAttempt' = lastAttempt + 1 /\ pc' = pc]_vars

\* Every read ends, a follower's and a passive reader's included, however the
\* source answers and however often the batteries go on polling.
EveryReadEnds == \A t \in Tasks : pc[t] # "idle" ~> pc[t] = "idle"
=============================================================================
