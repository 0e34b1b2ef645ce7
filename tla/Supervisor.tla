----------------------------- MODULE Supervisor -----------------------------
(***************************************************************************)
(* The life of the process (main.py): one device cycle after another, each *)
(* starting the meters, MQTT Insights and the emulated devices of the      *)
(* configuration, with a web server beside them that outlives the cycles.  *)
(* The dashboard saves the configuration and asks for a restart, which     *)
(* arrives as a signal; a stop is a cancellation of the supervising task.  *)
(*                                                                         *)
(* Cancelling a task raises where it awaits.  A gather that is cancelled   *)
(* cancels its tasks and raises as soon as the first of them has ended:    *)
(* the others go on unwinding beside whatever comes next.  A second cancel *)
(* strikes inside a `finally`: it is swallowed there or cuts it short.     *)
(*                                                                         *)
(* Data.  A configuration is its version, and every one has all the meters *)
(* and devices.  What a cycle leaves behind is the sockets of its devices. *)
(***************************************************************************)
EXTENDS Naturals, FiniteSets

CONSTANTS
    Meters,         \* how many there are; they are started in order
    Devices,
    Binders,        \* devices that await a Marstek responder once they are up
    MaxSaves        \* bound: saves of the configuration

ASSUME SupervisorAssumption ==
    /\ Meters \in Nat
    /\ IsFiniteSet(Devices) /\ Devices # {}
    /\ Binders \subseteq Devices
    /\ MaxSaves \in Nat

VARIABLES
    phase,      \* where _supervise is
    restart,    \* the restart event
    read,       \* the newest version a reload looked at
    cycle,      \* where the present async_main is, and whether it raised
    meters,     \* how many meters are started
    insights,   \* MQTT Insights is started
    device,     \* where each run_device of the present cycle is
    listed,     \* registry.devices
    lingering,  \* devices of a former cycle that still unwind, socket bound
    leaked,     \* sockets of former cycles nobody will ever close
    file,       \* the version of the configuration on disk
    asked,      \* a restart was asked for, its signal is to come
    stopping,   \* a stop was asked for
    due,        \* history: the version the last restart was signalled for
    torn,       \* history: a cancel cut the `finally` of a cycle short
    swallowed   \* history: a stop was swallowed

supervision == <<phase, restart, read>>
running == <<cycle, meters, insights>>
sockets == <<device, listed, lingering, leaked>>
requests == <<file, asked, stopping, due>>
history == <<torn, swallowed>>
supervisorVars == <<supervision, running, sockets, requests, history>>

Phases == {"registering", "running", "unwinding", "reloading", "reread",
           "ending", "ended", "exited"}
Places == {"none", "starting", "testing", "serving", "stopping", "done"}
DevicePlaces == {"idle", "starting", "binding", "serving", "leaving", "failed", "cancelled"}

NoCycle == [at |-> "none", failed |-> FALSE]
At(p) == cycle.at = p
Going(p) == [cycle EXCEPT !.at = p]
Failing(p) == [at |-> p, failed |-> TRUE]
Up == {d \in Devices : device[d] \in {"binding", "serving"}}

-----------------------------------------------------------------------------
(* A cycle: async_main and its run_device tasks                              *)

\* The meters start one after the other.  One that cannot be started, or one
\* that delivers no reading in four attempts, ends the cycle.
StartMeter ==
    /\ At("starting")
    /\ \/ /\ meters < Meters
          /\ meters' = meters + 1
          /\ UNCHANGED cycle
       \/ /\ meters < Meters
          /\ cycle' = Failing("stopping")
          /\ UNCHANGED meters
       \/ /\ meters = Meters
          /\ cycle' = Going("testing")
          /\ UNCHANGED meters
    /\ UNCHANGED <<insights, sockets, supervision, requests, history>>

TestMeters ==
    /\ At("testing")
    /\ \/ /\ cycle' = Going("serving") /\ insights' = TRUE
          /\ device' = [d \in Devices |-> "starting"]
       \/ /\ cycle' = Failing("stopping")
          /\ UNCHANGED <<insights, device>>
    /\ UNCHANGED <<meters, listed, lingering, leaked, supervision, requests, history>>

\* A device that comes up is registered; one that does not, its port still
\* taken for instance, leaves the others alone and stays away.
StartDevice(d) ==
    /\ device[d] = "starting"
    /\ \/ /\ d \notin lingering \cup leaked
          /\ listed' = listed \cup {d}
          /\ device' = [device EXCEPT ![d] = IF d \in Binders THEN "binding" ELSE "serving"]
       \/ /\ device' = [device EXCEPT ![d] = "failed"]
          /\ UNCHANGED listed
    /\ UNCHANGED <<lingering, leaked, running, supervision, requests, history>>

\* A device that cannot be built raises through the gather, which ends the
\* cycle without cancelling or awaiting the others.
DeviceRaises(d) ==
    /\ device[d] = "starting" /\ At("serving")
    /\ device' = [device EXCEPT ![d] = "failed"]
    /\ cycle' = Failing("stopping")
    /\ UNCHANGED <<meters, insights, listed, lingering, leaked, supervision, requests, history>>

Binds(d) ==
    /\ device[d] = "binding"
    /\ device' = [device EXCEPT ![d] = "serving"]
    /\ UNCHANGED <<listed, lingering, leaked, running, supervision, requests, history>>

\* The rest of its `finally`: off MQTT, then stopped.
Leave(d) ==
    /\ device[d] = "leaving"
    /\ device' = [device EXCEPT ![d] = "cancelled"]
    /\ UNCHANGED <<listed, lingering, leaked, running, supervision, requests, history>>

LeaveLate(d) ==
    /\ d \in lingering
    /\ lingering' = lingering \ {d}
    /\ UNCHANGED <<device, listed, leaked, running, supervision, requests, history>>

\* The gather: every device returned, or one ended by the cancel.
DevicesReturn ==
    /\ At("serving")
    /\ \/ \A d \in Devices : device[d] = "failed"
       \/ \E d \in Devices : device[d] = "cancelled"
    /\ cycle' = Going("stopping")
    /\ UNCHANGED <<meters, insights, sockets, supervision, requests, history>>

\* async_main's `finally`: MQTT Insights, then each meter, whatever fails.
StopCycle ==
    /\ At("stopping")
    /\ \/ /\ insights
          /\ insights' = FALSE
          /\ UNCHANGED <<meters, cycle>>
       \/ /\ ~insights /\ meters # 0
          /\ meters' = meters - 1
          /\ UNCHANGED <<insights, cycle>>
       \/ /\ ~insights /\ meters = 0
          /\ cycle' = Going("done")
          /\ UNCHANGED <<insights, meters>>
    /\ UNCHANGED <<sockets, supervision, requests, history>>

CycleSteps ==
    \/ StartMeter \/ TestMeters \/ DevicesReturn \/ StopCycle
    \/ \E d \in Devices :
        StartDevice(d) \/ Binds(d) \/ Leave(d) \/ LeaveLate(d) \/ DeviceRaises(d)

-----------------------------------------------------------------------------
(* A cancel of the cycle, delivered where it and its devices await           *)

\* One that waits for its responder is not in its `try` yet: it stays listed
\* and its socket bound.  One that serves is unregistered at once.
Struck(d) ==
    CASE device[d] \in {"starting", "binding"} -> "cancelled"
      [] device[d] = "serving" -> "leaving"
      [] OTHER -> device[d]

\* A second cancel may cut the `finally` of a device short.
StrikeDevices ==
    \E cut \in SUBSET {d \in Devices : device[d] = "leaving"} :
        /\ device' = [d \in Devices |-> IF d \in cut THEN "cancelled" ELSE Struck(d)]
        /\ leaked' = leaked \cup cut \cup {d \in Devices : device[d] = "binding"}
        /\ listed' = listed \ {d \in Devices : device[d] = "serving"}
        /\ UNCHANGED lingering

StrikeCycle ==
    /\ UNCHANGED <<meters, insights>>
    /\ \/ /\ cycle.at \in {"none", "serving", "stopping", "done"}
          /\ UNCHANGED <<cycle, torn>>
       \/ /\ cycle.at \in {"starting", "testing"}
          /\ cycle' = Going("stopping")
          /\ UNCHANGED torn
       \/ /\ At("stopping")
          /\ cycle' = [at |-> "done", failed |-> FALSE] /\ torn' = TRUE

\* The cancel reaches the devices through the gather.
CancelCycle ==
    /\ StrikeCycle
    /\ IF At("serving") THEN StrikeDevices ELSE UNCHANGED sockets

-----------------------------------------------------------------------------
(* The supervisor                                                            *)

\* (mutant) the restart event is cleared as the cycle starts
RegisteredClears ==
    /\ phase = "registering"
    /\ phase' = "running" /\ restart' = FALSE
    /\ cycle' = [at |-> "starting", failed |-> FALSE]
    /\ lingering' = lingering \cup {d \in Devices : device[d] = "leaving"}
    /\ leaked' = leaked \cup {d \in Devices : device[d] \in {"starting", "binding", "serving"}}
    /\ device' = [d \in Devices |-> "idle"]
    /\ UNCHANGED <<meters, insights, listed, read, requests, history>>

\* What is left of the devices of a cycle when the next one begins.
Registered ==
    /\ phase = "registering"
    /\ phase' = "running"
    /\ cycle' = [at |-> "starting", failed |-> FALSE]
    /\ lingering' = lingering \cup {d \in Devices : device[d] = "leaving"}
    /\ leaked' = leaked \cup {d \in Devices : device[d] \in {"starting", "binding", "serving"}}
    /\ device' = [d \in Devices |-> "idle"]
    /\ UNCHANGED <<meters, insights, listed, restart, read, requests, history>>

\* A cycle that raised ends the process, one that returned does unless a
\* restart is due.
CycleOver ==
    /\ phase = "running" /\ At("done")
    /\ cycle.failed \/ ~restart
    /\ phase' = "ending"
    /\ UNCHANGED <<restart, read, running, sockets, requests, history>>

RestartSeen ==
    /\ phase = "running" /\ restart
    /\ ~(At("done") /\ cycle.failed)
    /\ phase' = "unwinding"
    /\ CancelCycle
    /\ UNCHANGED <<restart, read, requests, swallowed>>

\* (mutant) reset_cycle keeps the devices
UnwoundKeepsDevices ==
    /\ phase = "unwinding" /\ At("done")
    /\ IF cycle.failed THEN phase' = "ending" ELSE phase' = "reloading"
    /\ UNCHANGED <<restart, read, running, sockets, requests, history>>

\* The cycle that was cancelled is over.
Unwound ==
    /\ phase = "unwinding" /\ At("done")
    /\ IF cycle.failed
       THEN phase' = "ending" /\ UNCHANGED listed
       ELSE phase' = "reloading" /\ listed' = {}
    /\ UNCHANGED <<restart, read, running, device, lingering, leaked, requests, history>>

\* The thread reads the file, which may fail: the last good one stays.
ReadConfig ==
    /\ phase = "reloading"
    /\ phase' = "reread" /\ read' = file
    /\ UNCHANGED <<restart, running, sockets, requests, history>>

\* The restart event is cleared before the devices are resolved and Marstek
\* registered; a configuration that cannot be resolved ends the process.
ReloadDone ==
    /\ phase = "reread"
    /\ phase' \in {"registering", "ending"}
    /\ restart' = FALSE
    /\ UNCHANGED <<read, running, sockets, requests, history>>

\* (mutant) awaits the cycle without cancelling it
WebStoppedAwaits ==
    /\ phase = "ending" /\ cycle.at \in {"none", "done"}
    /\ phase' = "ended"
    /\ StrikeCycle /\ StrikeDevices
    /\ UNCHANGED <<restart, read, requests, swallowed>>

\* The web server stops, then asyncio.run cancels every task left.
WebStopped ==
    /\ phase = "ending"
    /\ phase' = "ended"
    /\ StrikeCycle /\ StrikeDevices
    /\ UNCHANGED <<restart, read, requests, swallowed>>

Exit ==
    /\ phase = "ended"
    /\ cycle.at \in {"none", "done"}
    /\ lingering = {} /\ \A d \in Devices : device[d] # "leaving"
    /\ phase' = "exited"
    /\ UNCHANGED <<restart, read, running, sockets, requests, history>>

SupervisorSteps ==
    \/ Registered \/ CycleOver \/ RestartSeen \/ Unwound \/ ReadConfig \/ ReloadDone
    \/ WebStopped \/ Exit

-----------------------------------------------------------------------------
(* Requests                                                                  *)

Save ==
    /\ file < MaxSaves
    /\ file' = file + 1
    /\ UNCHANGED <<asked, stopping, due, supervision, running, sockets, history>>

AskRestart ==
    /\ phase \notin {"ended", "exited"}
    /\ asked' = TRUE
    /\ UNCHANGED <<file, stopping, due, supervision, running, sockets, history>>

\* SIGUSR1.  One that comes after the file was read and before the event is
\* cleared asks for nothing: it is not counted as due.
Signal ==
    /\ asked /\ phase \notin {"ending", "ended", "exited"}
    /\ asked' = FALSE /\ restart' = TRUE
    /\ due' = IF phase = "reread" THEN due ELSE file
    /\ UNCHANGED <<file, stopping, phase, read, running, sockets, history>>

\* SIGINT or SIGTERM cancels the supervisor where it awaits: while it awaits
\* the cancelled cycle, the cancel goes to the cycle and is swallowed.
Stop ==
    /\ ~stopping /\ stopping' = TRUE
    /\ \/ /\ phase \in {"registering", "running", "reloading", "reread"}
          /\ phase' = "ending"
          /\ UNCHANGED <<running, sockets, history>>
       \/ /\ phase = "unwinding"
          /\ swallowed' = TRUE
          /\ CancelCycle
          /\ UNCHANGED phase
    /\ UNCHANGED <<file, asked, due, restart, read>>

-----------------------------------------------------------------------------
SupervisorInit ==
    /\ phase = "registering" /\ restart = FALSE /\ read = 0
    /\ cycle = NoCycle /\ meters = 0 /\ insights = FALSE
    /\ device = [d \in Devices |-> "idle"]
    /\ listed = {} /\ lingering = {} /\ leaked = {}
    /\ file = 0 /\ asked = FALSE /\ stopping = FALSE /\ due = 0
    /\ torn = FALSE /\ swallowed = FALSE

SupervisorNext == SupervisorSteps \/ CycleSteps \/ Save \/ AskRestart \/ Signal \/ Stop

SupervisorSpec == SupervisorInit /\ [][SupervisorNext]_supervisorVars
\* What awaits something gets it: every `stop` and thread returns.
FairSpec == SupervisorSpec /\ WF_supervisorVars(SupervisorSteps) /\ WF_supervisorVars(CycleSteps)

-----------------------------------------------------------------------------
TypeOK ==
    /\ phase \in Phases /\ restart \in BOOLEAN /\ read \in 0 .. MaxSaves
    /\ cycle \in [at : Places, failed : BOOLEAN]
    /\ meters \in 0 .. Meters /\ insights \in BOOLEAN
    /\ device \in [Devices -> DevicePlaces]
    /\ listed \subseteq Devices /\ lingering \subseteq Devices /\ leaked \subseteq Devices
    /\ file \in 0 .. MaxSaves /\ due \in 0 .. MaxSaves
    /\ asked \in BOOLEAN /\ stopping \in BOOLEAN
    /\ torn \in BOOLEAN /\ swallowed \in BOOLEAN

\* main.py, "so no device task, powermeter or MQTT client leaks into it": while
\* a cycle runs the dashboard lists exactly the devices that are up in it, none
\* of a former cycle and none that is unwinding, and no MQTT client of a former
\* cycle serves beside it.  (After a `finally` cut short either may; and what
\* former cycles do leave behind, see lingering and leaked, is not listed.)
CycleStandsAlone ==
    phase = "running" /\ ~torn =>
        /\ listed = Up
        /\ At("starting") \/ At("testing") => ~insights

\* A restart that is signalled takes over what was saved before it, or ends
\* the process, however it falls among the steps of the restart before: while a
\* cycle starts, serves, unwinds, or the file is about to be read.  One that is
\* signalled between the reading of the file and the clearing of the event is
\* lost with it (main.py:885) and is not counted as due.
RestartsAreKept == phase = "running" /\ ~restart => due <= read

\* A stop ends the process, with everything in it, wherever the restarts are;
\* unless it comes while a cancelled cycle is awaited and is swallowed there.
StopEnds == stopping ~> (phase = "exited" \/ swallowed)
=============================================================================
