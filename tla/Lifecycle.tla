------------------------------ MODULE Lifecycle ------------------------------
(***************************************************************************)
(* The life of a plugin process: RunPlugin, NewDriver, Shutdown, the       *)
(* health check and HandleError.                                           *)
(*                                                                         *)
(* Main takes one step after the other; each step of the start may fail    *)
(* and then ends the process at once.  Meanwhile signals arrive, calls and *)
(* probes are served by other goroutines, and the helper reports errors of *)
(* its background activities.  Two instances overlap in a rolling update.  *)
(*                                                                         *)
(* External: the kubelet, the operating system, and the kubeletplugin      *)
(* helper, whose services are open from Start on, whose lock is held for   *)
(* the whole of a call by one instance of the node, and which may close    *)
(* the services once its context is done.                                  *)
(***************************************************************************)
EXTENDS Integers

CONSTANTS
    Instances,      \* pods of the DaemonSet on the node
    PodUID,         \* [Instances -> UIDs]: the pod-uid flag
    NoUID,          \* the flag is not set
    Port,           \* [Instances -> Int]: the healthcheck-port flag
    None,           \* nobody
    HelperWaits,    \* does Helper.Stop wait for the calls in flight?
    MaxErrors,      \* bound on the errors reported to HandleError
    MaxCrashes      \* bound on crashes and reboots

(* The names of the sockets tell two instances apart. *)
ASSUME PodUIDAssumption == \A i, j \in Instances : PodUID[i] = PodUID[j] => i = j

ASSUME PortAssumption == Port \in [Instances -> Int]

ASSUME NoneAssumption == None \notin Instances

VARIABLES
    node,           \* what main has made on the node: directories, common spec
    lock,           \* the instance whose call holds the helper's lock
    \* per instance
    stage,          \* what main does next
    caught,         \* are signals caught by NotifyContext?
    done,           \* is the context of main done?
    asked,          \* was the process asked to end?
    served,         \* are the helper's gRPC services open?
    listening,      \* does the health check accept probes?
    call,           \* a call of the kubelet
    check,          \* a Check: which of its calls it waits for, or what the
                    \* last one answered
    \* bounds
    errors, crashes

main    == <<stage, caught, done, asked>>
servers == <<served, listening>>
clients == <<call, lock, check>>
bounds  == <<errors, crashes>>
vars    == <<node, main, servers, clients, bounds>>

(* The steps of the start that return an error, and the others. *)
Fallible == {"clients", "dirs", "devices", "spec", "services", "health", "publish"}
Stages   == Fallible \cup {"off", "signals", "wait", "stopHealth", "drain", "stopHelper", "closing"}
Made     == {"plugins", "cdi", "base", "common"}
InFlight == {"info", "prepare", "waiting"}
Answered == {"none", "SERVING", "NOT_SERVING", "NotFound"}

TypeOK ==
    /\ node \subseteq Made
    /\ lock \in Instances \cup {None}
    /\ stage \in [Instances -> Stages]
    /\ caught \in [Instances -> BOOLEAN]
    /\ done \in [Instances -> BOOLEAN]
    /\ asked \in [Instances -> BOOLEAN]
    /\ served \in [Instances -> BOOLEAN]
    /\ listening \in [Instances -> BOOLEAN]
    /\ call \in [Instances -> {"none", "waiting", "serving"}]
    /\ check \in [Instances -> InFlight \cup Answered]
    /\ errors \in Nat
    /\ crashes \in Nat

Init ==
    /\ node = {}
    /\ lock = None
    /\ stage = [i \in Instances |-> "off"]
    /\ caught = [i \in Instances |-> FALSE]
    /\ done = [i \in Instances |-> FALSE]
    /\ asked = [i \in Instances |-> FALSE]
    /\ served = [i \in Instances |-> FALSE]
    /\ listening = [i \in Instances |-> FALSE]
    /\ call = [i \in Instances |-> "none"]
    /\ check = [i \in Instances |-> "none"]
    /\ errors = 0
    /\ crashes = 0

(* Processes end, and everything of theirs with them. *)
End(dead) ==
    LET Reset(f, v) == [i \in Instances |-> IF i \in dead THEN v ELSE f[i]]
    IN  /\ stage' = Reset(stage, "off")
        /\ caught' = Reset(caught, FALSE)
        /\ done' = Reset(done, FALSE)
        /\ asked' = Reset(asked, FALSE)
        /\ served' = Reset(served, FALSE)
        /\ listening' = Reset(listening, FALSE)
        /\ call' = Reset(call, "none")
        /\ check' = Reset(check, "none")
        /\ lock' = IF lock \in dead THEN None ELSE lock

-----------------------------------------------------------------------------
(* The start. *)

(* The order of the start.  Mutant: the services are opened before there   *)
(* is a DeviceState.                                                       *)
ServicesFirst(s) ==
    CASE s = "clients"  -> "dirs"
      [] s = "dirs"     -> "signals"
      [] s = "signals"  -> "services"
      [] s = "services" -> "devices"
      [] s = "devices"  -> "spec"
      [] s = "spec"     -> "health"
      [] s = "health"   -> "publish"
      [] s = "publish"  -> "wait"

Following(s) ==
    CASE s = "clients"  -> "dirs"
      [] s = "dirs"     -> "signals"
      [] s = "signals"  -> "devices"
      [] s = "devices"  -> "spec"
      [] s = "spec"     -> "services"
      [] s = "services" -> "health"
      [] s = "health"   -> "publish"
      [] s = "publish"  -> "wait"

Step(i, s) ==
    /\ stage[i] = s
    /\ stage' = [stage EXCEPT ![i] = Following(s)]
    /\ UNCHANGED <<done, asked, clients, bounds>>

(* The kubelet starts the container. *)
Launch(i) ==
    /\ stage[i] = "off"
    /\ stage' = [stage EXCEPT ![i] = "clients"]
    /\ UNCHANGED <<node, caught, done, asked, servers, clients, bounds>>

(* The flags are parsed, the profile is looked up. *)
NewClientSets(i) == Step(i, "clients") /\ UNCHANGED <<node, caught, servers>>

(* The plugin's directory and the CDI root. *)
MakeDirectories(i) ==
    /\ Step(i, "dirs")
    /\ node' = node \cup {"plugins", "cdi"}
    /\ UNCHANGED <<caught, servers>>

NotifyContext(i) ==
    /\ Step(i, "signals")
    /\ caught' = [caught EXCEPT ![i] = TRUE]
    /\ UNCHANGED <<node, servers>>

(* NewDeviceState: the profile makes the base directory ... *)
EnumerateDevices(i) ==
    /\ Step(i, "devices")
    /\ node' = node \cup {"base"}
    /\ UNCHANGED <<caught, servers>>

(* ... and the spec of the common device is written. *)
CreateCommonSpecFile(i) ==
    /\ Step(i, "spec")
    /\ node' = node \cup {"common"}
    /\ UNCHANGED <<caught, servers>>

(* kubeletplugin.Start; from now on there are calls and background errors, *)
(* before main has the helper in hand.                                     *)
OpenServices(i) ==
    /\ Step(i, "services")
    /\ served' = [served EXCEPT ![i] = TRUE]
    /\ UNCHANGED <<node, caught, listening>>

(* "When negative, the healthcheck service is disabled." *)
startHealthcheck(i) ==
    /\ Step(i, "health")
    /\ listening' = [listening EXCEPT ![i] = Port[i] >= 0]
    /\ UNCHANGED <<node, caught, served>>

PublishResources(i) == Step(i, "publish") /\ UNCHANGED <<node, caught, servers>>

(* An error of any of these goes up to main, which exits: the helper is    *)
(* not stopped, calls in flight are lost.  Some of the directories may     *)
(* have been made.                                                         *)
StartFails(i) ==
    /\ stage[i] \in Fallible
    /\ node' \in {node} \cup
                 (IF stage[i] = "dirs" THEN {node \cup {"plugins"}} ELSE {}) \cup
                 (IF stage[i] = "devices" THEN {node \cup {"base"}} ELSE {})
    /\ End({i})
    /\ UNCHANGED bounds

-----------------------------------------------------------------------------
(* The end. *)

(* <-ctx.Done(), and stop() right after it.  Mutant: stop is only          *)
(* deferred.                                                               *)
KeepsCatching(i) ==
    /\ stage[i] = "wait"
    /\ done[i]
    /\ stage' = [stage EXCEPT ![i] = "stopHealth"]
    /\ UNCHANGED <<node, caught, done, asked, servers, clients, bounds>>

RestoreSignals(i) ==
    /\ stage[i] = "wait"
    /\ done[i]
    /\ stage' = [stage EXCEPT ![i] = "stopHealth"]
    /\ caught' = [caught EXCEPT ![i] = FALSE]
    /\ UNCHANGED <<node, done, asked, servers, clients, bounds>>

(* Shutdown: healthcheck.Stop accepts no more probes and waits for those   *)
(* in flight, then the helper is stopped.                                  *)
GracefulStop(i) ==
    /\ stage[i] = "stopHealth"
    /\ stage' = [stage EXCEPT ![i] = "drain"]
    /\ listening' = [listening EXCEPT ![i] = FALSE]
    /\ UNCHANGED <<node, caught, done, asked, served, clients, bounds>>

Drained(i) ==
    /\ stage[i] = "drain"
    /\ check[i] \in Answered
    /\ stage' = [stage EXCEPT ![i] = "stopHelper"]
    /\ UNCHANGED <<node, caught, done, asked, servers, clients, bounds>>

StopHelper(i) ==
    /\ stage[i] = "stopHelper"
    /\ stage' = [stage EXCEPT ![i] = "closing"]
    /\ served' = [served EXCEPT ![i] = FALSE]
    /\ UNCHANGED <<node, caught, done, asked, listening, clients, bounds>>

(* Helper.Stop, RunPlugin and main return. *)
HelperStopped(i) ==
    /\ stage[i] = "closing"
    /\ HelperWaits => call[i] = "none"
    /\ End({i})
    /\ UNCHANGED <<node, bounds>>

-----------------------------------------------------------------------------
(* What happens to a process. *)

(* SIGHUP, SIGINT, SIGTERM or SIGQUIT. *)
Signal(i) ==
    /\ stage[i] # "off"
    /\ IF caught[i]
       THEN /\ done' = [done EXCEPT ![i] = TRUE]
            /\ asked' = [asked EXCEPT ![i] = TRUE]
            /\ UNCHANGED <<stage, caught, servers, clients>>
       ELSE End({i})
    /\ UNCHANGED <<node, bounds>>

(* The helper reports an error of a background activity, as early as there *)
(* is one.  A fatal one cancels the context.  Mutant: an error that comes  *)
(* before NewDriver has returned finds no cancelCtx.                       *)
LosesEarlyErrors(i) ==
    /\ served[i]
    /\ errors < MaxErrors
    /\ errors' = errors + 1
    /\ asked' = [asked EXCEPT ![i] = TRUE]
    /\ done' = [done EXCEPT ![i] = done[i] \/ stage[i] \notin Fallible]
    /\ UNCHANGED <<node, stage, caught, servers, clients, crashes>>

HandleError(i) ==
    /\ served[i]
    /\ errors < MaxErrors
    /\ errors' = errors + 1
    /\ \E recoverable \in BOOLEAN :
           /\ asked' = [asked EXCEPT ![i] = asked[i] \/ ~recoverable]
           /\ done' = [done EXCEPT ![i] = done[i] \/ ~recoverable]
    /\ UNCHANGED <<node, stage, caught, servers, clients, crashes>>

(* The helper's background activities end with the context. *)
HelperReacts(i) ==
    /\ done[i]
    /\ served[i]
    /\ served' = [served EXCEPT ![i] = FALSE]
    /\ UNCHANGED <<node, main, listening, clients, bounds>>

Crash(i) ==
    /\ stage[i] # "off"
    /\ crashes < MaxCrashes
    /\ crashes' = crashes + 1
    /\ End({i})
    /\ UNCHANGED <<node, errors>>

(* Only the plugin's directory is not under /var/run. *)
Reboot ==
    /\ crashes < MaxCrashes
    /\ crashes' = crashes + 1
    /\ node' = node \cap {"plugins"}
    /\ End(Instances)
    /\ UNCHANGED errors

-----------------------------------------------------------------------------
(* Calls of the kubelet. *)

Call(i) ==
    /\ served[i]
    /\ call[i] = "none"
    /\ call' = [call EXCEPT ![i] = "waiting"]
    /\ UNCHANGED <<node, main, servers, lock, check, bounds>>

CallBegins(i) ==
    /\ call[i] = "waiting"
    /\ lock = None
    /\ lock' = i
    /\ call' = [call EXCEPT ![i] = "serving"]
    /\ UNCHANGED <<node, main, servers, check, bounds>>

CallEnds(i) ==
    /\ call[i] = "serving"
    /\ lock' = None
    /\ call' = [call EXCEPT ![i] = "none"]
    /\ UNCHANGED <<node, main, servers, check, bounds>>

-----------------------------------------------------------------------------
(* Check. *)

(* The names the sockets have for the health check; the helper gives them  *)
(* the pod's UID.  Mutant: the name of a plugin without rolling updates.   *)
WithoutPodUID(i) == NoUID
SocketOf(i) == PodUID[i]

(* The instance that a connection to the socket reaches, if any. *)
Reached(i) == {j \in Instances : served[j] /\ PodUID[j] = SocketOf(i)}

CheckAt(i, place) == check' = [check EXCEPT ![i] = place]

Probe(i) ==
    /\ listening[i]
    /\ check[i] \in Answered
    /\ CheckAt(i, "info") \/ CheckAt(i, "NotFound")
    /\ UNCHANGED <<node, main, servers, call, lock, bounds>>

GetInfo(i) ==
    /\ check[i] = "info"
    /\ CheckAt(i, IF Reached(i) # {} THEN "prepare" ELSE "NOT_SERVING")
    /\ UNCHANGED <<node, main, servers, call, lock, bounds>>

(* An empty NodePrepareResources, which waits for the helper's lock ... *)
NodePrepareResources(i) ==
    /\ check[i] = "prepare"
    /\ CheckAt(i, IF Reached(i) # {} THEN "waiting" ELSE "NOT_SERVING")
    /\ UNCHANGED <<node, main, servers, call, lock, bounds>>

(* ... and has nothing to do under it, or fails with the connection. *)
Responds(i) ==
    /\ check[i] = "waiting"
    /\ \/ Reached(i) # {} /\ lock = None /\ CheckAt(i, "SERVING")
       \/ Reached(i) = {} /\ CheckAt(i, "NOT_SERVING")
    /\ UNCHANGED <<node, main, servers, call, lock, bounds>>

(* The prober's deadline ends the calls of the Check, and nobody is there  *)
(* for its answer.                                                         *)
ProbeTimesOut(i) ==
    /\ check[i] \in InFlight
    /\ CheckAt(i, "none")
    /\ UNCHANGED <<node, main, servers, call, lock, bounds>>

-----------------------------------------------------------------------------

NewDeviceState(i) == EnumerateDevices(i) \/ CreateCommonSpecFile(i)

NewDriver(i) ==
    NewDeviceState(i) \/ OpenServices(i) \/ startHealthcheck(i) \/ PublishResources(i)

Shutdown(i) == GracefulStop(i) \/ Drained(i) \/ StopHelper(i) \/ HelperStopped(i)

RunPlugin(i) ==
    \/ NewClientSets(i)
    \/ MakeDirectories(i)
    \/ NotifyContext(i)
    \/ NewDriver(i)
    \/ StartFails(i)
    \/ RestoreSignals(i)
    \/ Shutdown(i)

Check(i) == GetInfo(i) \/ NodePrepareResources(i) \/ Responds(i)

Environment(i) ==
    \/ Launch(i)
    \/ Signal(i)
    \/ HandleError(i)
    \/ HelperReacts(i)
    \/ Crash(i)
    \/ Call(i) \/ CallBegins(i) \/ CallEnds(i)
    \/ Probe(i) \/ ProbeTimesOut(i)

Next ==
    \/ \E i \in Instances : RunPlugin(i) \/ Check(i) \/ Environment(i)
    \/ Reboot

Spec == Init /\ [][Next]_vars

(* Main runs. *)
FairSpec == Spec /\ \A i \in Instances : WF_vars(RunPlugin(i))

(* Goroutines run, locks are handed on and calls end. *)
CallsEnd ==
    \A i \in Instances : /\ WF_vars(Check(i)) /\ SF_vars(Responds(i))
                         /\ SF_vars(CallBegins(i)) /\ WF_vars(CallEnds(i))

(* Somebody repeats a signal that has no effect. *)
SignalRepeated == \A i \in Instances : WF_vars(asked[i] /\ Signal(i))

-----------------------------------------------------------------------------
(* Properties. *)

(* Whoever calls finds what NewDeviceState has to provide, whatever start  *)
(* failed, and whatever reboot was, in between.                            *)
CallsFindNode ==
    \A i \in Instances : served[i] \/ call[i] # "none" => node = Made

(* A liveness probe fails only where the process was asked to end, or did  *)
(* not answer in time: never because a service it asks is not open yet, is *)
(* closed already or is another instance's.                                *)
NoFalseAlarm ==
    \A i \in Instances : check[i] = "NOT_SERVING" => asked[i]

(* A signal, or a fatal error of the background activities, however early, *)
(* ends the process ...                                                    *)
AskedEnds == \A i \in Instances : asked[i] ~> stage[i] = "off"

(* ... by itself, if the calls and Checks in flight end, those of the      *)
(* other instance included: Shutdown waits for nobody who waits for it.    *)
EndsByItself == CallsEnd => AskedEnds

(* ... and by a second signal, if they hang for ever: "restore default     *)
(* signal behavior as soon as possible in case graceful shutdown gets      *)
(* stuck".                                                                 *)
EndsIfRepeated == SignalRepeated => AskedEnds
=============================================================================
