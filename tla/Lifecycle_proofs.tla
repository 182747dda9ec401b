--------------------------- MODULE Lifecycle_proofs ---------------------------
(***************************************************************************)
(* Whoever calls finds what NewDeviceState provides, and a liveness probe  *)
(* that is not too late fails only where the process was asked to end: for *)
(* any number of instances, errors, crashes and reboots.                   *)
(*                                                                         *)
(* Both follow from how far main has come: each stage implies what was     *)
(* made before it.                                                         *)
(***************************************************************************)
EXTENDS Lifecycle, TLAPS

(* The stages from the opening of the services on, and those in which the  *)
(* process ends.                                                           *)
Ending == {"stopHealth", "drain", "stopHelper", "closing"}
Open   == {"health", "publish", "wait"} \cup Ending

NodeInv ==
    \A i \in Instances :
        /\ stage[i] \in {"signals", "devices", "spec", "services"} \cup Open
               => {"plugins", "cdi"} \subseteq node
        /\ stage[i] \in {"spec", "services"} \cup Open => "base" \in node
        /\ stage[i] \in {"services"} \cup Open => "common" \in node
        /\ served[i] \/ call[i] # "none" => stage[i] \in Open

AlarmInv ==
    \A i \in Instances :
        /\ done[i] => asked[i]
        /\ stage[i] \in Ending => asked[i]
        /\ stage[i] \in Open => served[i] \/ asked[i]
        /\ listening[i] \/ check[i] # "none" => stage[i] \in Open
        /\ check[i] = "NOT_SERVING" => asked[i]

IInv == TypeOK /\ NodeInv /\ AlarmInv

LEMMA InitInvariant == Init => IInv
BY NoneAssumption DEF Init, IInv, TypeOK, NodeInv, AlarmInv, Fallible, Stages, Made,
    InFlight, Answered, Ending, Open

-----------------------------------------------------------------------------
(* The end of processes. *)

LEMMA EndInvariant ==
    ASSUME IInv, NEW dead \in SUBSET Instances, End(dead),
           UNCHANGED bounds \/ (crashes' \in Nat /\ UNCHANGED errors),
           \/ node \subseteq node' /\ node' \subseteq Made
           \/ dead = Instances /\ node' \subseteq Made
    PROVE  IInv'
<1> USE DEF IInv
<1>1. TypeOK'
  BY DEF TypeOK, End, bounds, Stages, Fallible, Made, InFlight, Answered
<1>2. NodeInv'
  BY DEF TypeOK, NodeInv, End, Open, Ending
<1>3. AlarmInv'
  BY DEF TypeOK, AlarmInv, End, Open, Ending
<1> QED BY <1>1, <1>2, <1>3

LEMMA StartFailsInvariant ==
    ASSUME IInv, NEW i \in Instances, StartFails(i)
    PROVE  IInv'
<1>1. node \subseteq node' /\ node' \subseteq Made
  BY DEF StartFails, IInv, TypeOK, Made
<1>2. {i} \in SUBSET Instances /\ End({i}) /\ UNCHANGED bounds
  BY DEF StartFails
<1> QED BY <1>1, <1>2, EndInvariant DEF bounds

-----------------------------------------------------------------------------
(* Main: the start and the end. *)

LEMMA StartInvariant ==
    ASSUME IInv, NEW i \in Instances,
           \/ NewClientSets(i) \/ MakeDirectories(i) \/ NotifyContext(i)
           \/ EnumerateDevices(i) \/ CreateCommonSpecFile(i) \/ OpenServices(i)
           \/ startHealthcheck(i) \/ PublishResources(i)
    PROVE  IInv'
<1> USE DEF IInv, Following, Step, bounds, clients, servers
<1>1. CASE NewClientSets(i)
  <2>1. TypeOK'   BY <1>1 DEF TypeOK, NewClientSets, Stages, Fallible, Made
  <2>2. NodeInv'  BY <1>1 DEF TypeOK, NodeInv, NewClientSets, Open, Ending
  <2>3. AlarmInv' BY <1>1 DEF TypeOK, AlarmInv, NewClientSets, Open, Ending
  <2> QED BY <2>1, <2>2, <2>3
<1>2. CASE MakeDirectories(i)
  <2>1. TypeOK'   BY <1>2 DEF TypeOK, MakeDirectories, Stages, Fallible, Made
  <2>2. NodeInv'  BY <1>2 DEF TypeOK, NodeInv, MakeDirectories, Open, Ending
  <2>3. AlarmInv' BY <1>2 DEF TypeOK, AlarmInv, MakeDirectories, Open, Ending
  <2> QED BY <2>1, <2>2, <2>3
<1>3. CASE NotifyContext(i)
  <2>1. TypeOK'   BY <1>3 DEF TypeOK, NotifyContext, Stages, Fallible, Made
  <2>2. NodeInv'  BY <1>3 DEF TypeOK, NodeInv, NotifyContext, Open, Ending
  <2>3. AlarmInv' BY <1>3 DEF TypeOK, AlarmInv, NotifyContext, Open, Ending
  <2> QED BY <2>1, <2>2, <2>3
<1>4. CASE EnumerateDevices(i)
  <2>1. TypeOK'   BY <1>4 DEF TypeOK, EnumerateDevices, Stages, Fallible, Made
  <2>2. NodeInv'  BY <1>4 DEF TypeOK, NodeInv, EnumerateDevices, Open, Ending
  <2>3. AlarmInv' BY <1>4 DEF TypeOK, AlarmInv, EnumerateDevices, Open, Ending
  <2> QED BY <2>1, <2>2, <2>3
<1>5. CASE CreateCommonSpecFile(i)
  <2>1. TypeOK'   BY <1>5 DEF TypeOK, CreateCommonSpecFile, Stages, Fallible, Made
  <2>2. NodeInv'  BY <1>5 DEF TypeOK, NodeInv, CreateCommonSpecFile, Open, Ending
  <2>3. AlarmInv' BY <1>5 DEF TypeOK, AlarmInv, CreateCommonSpecFile, Open, Ending
  <2> QED BY <2>1, <2>2, <2>3
<1>6. CASE OpenServices(i)
  <2>1. TypeOK'   BY <1>6 DEF TypeOK, OpenServices, Stages, Fallible, Made
  <2>2. NodeInv'  BY <1>6 DEF TypeOK, NodeInv, OpenServices, Open, Ending
  <2>3. AlarmInv' BY <1>6 DEF TypeOK, AlarmInv, OpenServices, Open, Ending
  <2> QED BY <2>1, <2>2, <2>3
<1>7. CASE startHealthcheck(i)
  <2>1. listening' = [listening EXCEPT ![i] = Port[i] >= 0]
    BY <1>7 DEF startHealthcheck
  <2>2. (Port[i] >= 0) \in BOOLEAN
    BY PortAssumption
  <2>3. TypeOK'   BY <1>7, <2>1, <2>2 DEF TypeOK, startHealthcheck, Stages, Fallible, Made
  <2>4. NodeInv'  BY <1>7 DEF TypeOK, NodeInv, startHealthcheck, Open, Ending
  <2>5. AlarmInv' BY <1>7, <2>1, <2>2 DEF TypeOK, AlarmInv, startHealthcheck, Open, Ending
  <2> QED BY <2>3, <2>4, <2>5
<1>8. CASE PublishResources(i)
  <2>1. TypeOK'   BY <1>8 DEF TypeOK, PublishResources, Stages, Fallible, Made
  <2>2. NodeInv'  BY <1>8 DEF TypeOK, NodeInv, PublishResources, Open, Ending
  <2>3. AlarmInv' BY <1>8 DEF TypeOK, AlarmInv, PublishResources, Open, Ending
  <2> QED BY <2>1, <2>2, <2>3
<1> QED BY <1>1, <1>2, <1>3, <1>4, <1>5, <1>6, <1>7, <1>8

LEMMA ShutdownInvariant ==
    ASSUME IInv, NEW i \in Instances,
           RestoreSignals(i) \/ GracefulStop(i) \/ Drained(i) \/ StopHelper(i) \/ HelperStopped(i)
    PROVE  IInv'
<1> USE DEF IInv, bounds, clients, servers
<1>1. CASE RestoreSignals(i)
  <2>1. TypeOK'   BY <1>1 DEF TypeOK, RestoreSignals, Stages, Fallible
  <2>2. NodeInv'  BY <1>1 DEF TypeOK, NodeInv, RestoreSignals, Open, Ending
  <2>3. AlarmInv' BY <1>1 DEF TypeOK, AlarmInv, RestoreSignals, Open, Ending
  <2> QED BY <2>1, <2>2, <2>3
<1>2. CASE GracefulStop(i)
  <2>1. TypeOK'   BY <1>2 DEF TypeOK, GracefulStop, Stages, Fallible
  <2>2. NodeInv'  BY <1>2 DEF TypeOK, NodeInv, GracefulStop, Open, Ending
  <2>3. AlarmInv' BY <1>2 DEF TypeOK, AlarmInv, GracefulStop, Open, Ending
  <2> QED BY <2>1, <2>2, <2>3
<1>3. CASE Drained(i)
  <2>1. TypeOK'   BY <1>3 DEF TypeOK, Drained, Stages, Fallible
  <2>2. NodeInv'  BY <1>3 DEF TypeOK, NodeInv, Drained, Open, Ending
  <2>3. AlarmInv' BY <1>3 DEF TypeOK, AlarmInv, Drained, Open, Ending
  <2> QED BY <2>1, <2>2, <2>3
<1>4. CASE StopHelper(i)
  <2>1. TypeOK'   BY <1>4 DEF TypeOK, StopHelper, Stages, Fallible
  <2>2. NodeInv'  BY <1>4 DEF TypeOK, NodeInv, StopHelper, Open, Ending
  <2>3. AlarmInv' BY <1>4 DEF TypeOK, AlarmInv, StopHelper, Open, Ending
  <2> QED BY <2>1, <2>2, <2>3
<1>5. CASE HelperStopped(i)
  <2>1. End({i}) /\ UNCHANGED <<node, bounds>> /\ {i} \in SUBSET Instances
    BY <1>5 DEF HelperStopped
  <2>2. node \subseteq node' /\ node' \subseteq Made
    BY <2>1 DEF TypeOK
  <2> QED BY <2>1, <2>2, EndInvariant
<1> QED BY <1>1, <1>2, <1>3, <1>4, <1>5

-----------------------------------------------------------------------------
(* What happens to a process. *)

LEMMA EventInvariant ==
    ASSUME IInv, NEW i \in Instances,
           Launch(i) \/ Signal(i) \/ HandleError(i) \/ HelperReacts(i) \/ Crash(i)
    PROVE  IInv'
<1> USE DEF IInv, bounds, clients, servers, main
<1>1. CASE Launch(i)
  <2>1. TypeOK'   BY <1>1 DEF TypeOK, Launch, Stages, Fallible
  <2>2. NodeInv'  BY <1>1 DEF TypeOK, NodeInv, Launch, Open, Ending
  <2>3. AlarmInv' BY <1>1 DEF TypeOK, AlarmInv, Launch, Open, Ending
  <2> QED BY <2>1, <2>2, <2>3
<1>2. CASE Signal(i)
  <2>1. CASE caught[i]
    <3>1. TypeOK'   BY <1>2, <2>1 DEF TypeOK, Signal
    <3>2. NodeInv'  BY <1>2, <2>1 DEF TypeOK, NodeInv, Signal
    <3>3. AlarmInv' BY <1>2, <2>1 DEF TypeOK, AlarmInv, Signal
    <3> QED BY <3>1, <3>2, <3>3
  <2>2. CASE ~caught[i]
    <3>1. End({i}) /\ UNCHANGED <<node, bounds>> /\ {i} \in SUBSET Instances
      BY <1>2, <2>2 DEF Signal
    <3>2. node \subseteq node' /\ node' \subseteq Made
      BY <3>1 DEF TypeOK
    <3> QED BY <3>1, <3>2, EndInvariant
  <2> QED BY <2>1, <2>2
<1>3. CASE HandleError(i)
  <2>1. PICK recoverable \in BOOLEAN :
            /\ asked' = [asked EXCEPT ![i] = asked[i] \/ ~recoverable]
            /\ done' = [done EXCEPT ![i] = done[i] \/ ~recoverable]
    BY <1>3 DEF HandleError
  <2>2. (asked[i] \/ ~recoverable) \in BOOLEAN /\ (done[i] \/ ~recoverable) \in BOOLEAN
    OBVIOUS
  <2>3. TypeOK'   BY <1>3, <2>1, <2>2 DEF TypeOK, HandleError
  <2>4. NodeInv'  BY <1>3 DEF TypeOK, NodeInv, HandleError
  <2>5. AlarmInv'
    <3>1. \A j \in Instances : asked[j] => asked'[j]
      BY <2>1 DEF TypeOK
    <3>2. \A j \in Instances : done'[j] => asked'[j]
      BY <2>1 DEF TypeOK, AlarmInv
    <3> QED BY <1>3, <3>1, <3>2 DEF AlarmInv, HandleError
  <2> QED BY <2>3, <2>4, <2>5
<1>4. CASE HelperReacts(i)
  <2>1. TypeOK'   BY <1>4 DEF TypeOK, HelperReacts
  <2>2. NodeInv'  BY <1>4 DEF TypeOK, NodeInv, HelperReacts
  <2>3. AlarmInv' BY <1>4 DEF TypeOK, AlarmInv, HelperReacts
  <2> QED BY <2>1, <2>2, <2>3
<1>5. CASE Crash(i)
  <2>1. End({i}) /\ UNCHANGED <<node, errors>> /\ {i} \in SUBSET Instances
    BY <1>5 DEF Crash
  <2>2. node \subseteq node' /\ node' \subseteq Made /\ crashes' \in Nat
    BY <1>5, <2>1 DEF Crash, TypeOK
  <2> QED BY <2>1, <2>2, EndInvariant
<1> QED BY <1>1, <1>2, <1>3, <1>4, <1>5

LEMMA RebootInvariant ==
    ASSUME IInv, Reboot
    PROVE  IInv'
<1>1. End(Instances) /\ node' \subseteq Made /\ crashes' \in Nat /\ UNCHANGED errors
  BY DEF Reboot, IInv, TypeOK, Made
<1> QED BY <1>1, EndInvariant

-----------------------------------------------------------------------------
(* Calls and probes. *)

LEMMA CallInvariant ==
    ASSUME IInv, NEW i \in Instances, Call(i) \/ CallBegins(i) \/ CallEnds(i)
    PROVE  IInv'
<1> USE DEF IInv, bounds, servers, main
<1>1. CASE Call(i)
  <2>1. TypeOK'   BY <1>1 DEF TypeOK, Call
  <2>2. NodeInv'  BY <1>1 DEF TypeOK, NodeInv, Call
  <2>3. AlarmInv' BY <1>1 DEF AlarmInv, Call
  <2> QED BY <2>1, <2>2, <2>3
<1>2. CASE CallBegins(i)
  <2>1. TypeOK'   BY <1>2 DEF TypeOK, CallBegins
  <2>2. NodeInv'  BY <1>2 DEF TypeOK, NodeInv, CallBegins
  <2>3. AlarmInv' BY <1>2 DEF AlarmInv, CallBegins
  <2> QED BY <2>1, <2>2, <2>3
<1>3. CASE CallEnds(i)
  <2>1. TypeOK'   BY <1>3 DEF TypeOK, CallEnds
  <2>2. NodeInv'  BY <1>3 DEF TypeOK, NodeInv, CallEnds
  <2>3. AlarmInv' BY <1>3 DEF AlarmInv, CallEnds
  <2> QED BY <2>1, <2>2, <2>3
<1> QED BY <1>1, <1>2, <1>3

(* A Check whose services cannot be reached runs in a process that closes  *)
(* them, since the sockets it asks are its own.                            *)
LEMMA UnreachedIsAsked ==
    ASSUME IInv, NEW i \in Instances, check[i] # "none", Reached(i) = {}
    PROVE  asked[i]
<1>1. ~served[i]
  BY DEF Reached, SocketOf
<1> QED BY <1>1 DEF IInv, AlarmInv

(* A step of the health check puts it where its process allows. *)
LEMMA CheckAtInvariant ==
    ASSUME IInv, NEW i \in Instances, NEW place \in InFlight \cup Answered, CheckAt(i, place),
           UNCHANGED <<node, main, servers, call, lock, bounds>>,
           stage[i] \in Open, place = "NOT_SERVING" => asked[i]
    PROVE  IInv'
<1> USE DEF IInv, CheckAt, bounds, servers, main
<1>1. TypeOK'   BY DEF TypeOK
<1>2. NodeInv'  BY DEF NodeInv
<1>3. AlarmInv' BY DEF TypeOK, AlarmInv
<1> QED BY <1>1, <1>2, <1>3

LEMMA CheckInvariant ==
    ASSUME IInv, NEW i \in Instances,
           Probe(i) \/ GetInfo(i) \/ NodePrepareResources(i) \/ Responds(i) \/ ProbeTimesOut(i)
    PROVE  IInv'
<1>1. UNCHANGED <<node, main, servers, call, lock, bounds>>
  BY DEF Probe, GetInfo, NodePrepareResources, Responds, ProbeTimesOut
<1>2. stage[i] \in Open
  BY DEF IInv, AlarmInv, Probe, GetInfo, NodePrepareResources, Responds, ProbeTimesOut, InFlight
<1>3. PICK place \in InFlight \cup Answered :
          CheckAt(i, place) /\ (place = "NOT_SERVING" => check[i] # "none" /\ Reached(i) = {})
  BY DEF Probe, GetInfo, NodePrepareResources, Responds, ProbeTimesOut, InFlight, Answered
<1>4. place = "NOT_SERVING" => asked[i]
  BY <1>3, UnreachedIsAsked
<1> QED BY <1>1, <1>2, <1>3, <1>4, CheckAtInvariant

-----------------------------------------------------------------------------

LEMMA StepInvariant ==
    ASSUME IInv, [Next]_vars
    PROVE  IInv'
<1>1. ASSUME NEW i \in Instances, RunPlugin(i)
      PROVE  IInv'
  BY <1>1, StartInvariant, StartFailsInvariant, ShutdownInvariant
     DEF RunPlugin, NewDriver, NewDeviceState, Shutdown
<1>2. ASSUME NEW i \in Instances, Check(i)
      PROVE  IInv'
  BY <1>2, CheckInvariant DEF Check
<1>3. ASSUME NEW i \in Instances, Environment(i)
      PROVE  IInv'
  BY <1>3, EventInvariant, CallInvariant, CheckInvariant DEF Environment
<1>4. CASE Reboot
  BY <1>4, RebootInvariant
<1>5. CASE UNCHANGED vars
  BY <1>5 DEF IInv, TypeOK, NodeInv, AlarmInv, vars, main, servers, clients, bounds
<1> QED BY <1>1, <1>2, <1>3, <1>4, <1>5 DEF Next

LEMMA Invariant == Spec => []IInv
<1>1. Init => IInv
  BY InitInvariant
<1>2. IInv /\ [Next]_vars => IInv'
  BY StepInvariant
<1> QED BY <1>1, <1>2, PTL DEF Spec

(* The variables have their types. *)
THEOREM LifecycleTypeCorrect == Spec => []TypeOK
<1>1. IInv => TypeOK
  BY DEF IInv
<1> QED BY <1>1, Invariant, PTL

(* A call never runs in a process without the directories and the common   *)
(* spec that NewDeviceState makes before the helper is started.            *)
THEOREM NodeIsMade == Spec => []CallsFindNode
<1>1. IInv => CallsFindNode
  BY DEF IInv, TypeOK, NodeInv, CallsFindNode, Made
<1> QED BY <1>1, Invariant, PTL

(* A liveness probe that is answered in time fails only where the process  *)
(* was asked to end.                                                       *)
THEOREM NoFalseAlarms == Spec => []NoFalseAlarm
<1>1. IInv => NoFalseAlarm
  BY DEF IInv, AlarmInv, NoFalseAlarm
<1> QED BY <1>1, Invariant, PTL

-----------------------------------------------------------------------------
(* What Shutdown waits for. *)

(* From RestoreSignals on a signal ends the process, whatever Shutdown     *)
(* waits for.  Once it waits for the Checks no new one can come, and once  *)
(* it waits for the calls neither; it does not go on before the Checks are *)
(* answered.  A Check waits for the lock, and the lock is held by a call   *)
(* that runs, not by one that is over or was in a process that has ended.  *)
ShutdownIsClear ==
    \A i \in Instances :
        /\ stage[i] \in Ending => ~caught[i]
        /\ stage[i] \in {"drain", "stopHelper", "closing"} => ~listening[i]
        /\ stage[i] \in {"stopHelper", "closing"} => check[i] \in Answered
        /\ stage[i] = "closing" => ~served[i]
        /\ lock = i <=> call[i] = "serving"

LEMMA ClearEnd ==
    ASSUME TypeOK, ShutdownIsClear, NEW dead \in SUBSET Instances, End(dead)
    PROVE  ShutdownIsClear'
BY NoneAssumption DEF TypeOK, ShutdownIsClear, End, Ending

LEMMA ClearMain ==
    ASSUME TypeOK, ShutdownIsClear, NEW i \in Instances, RunPlugin(i)
    PROVE  ShutdownIsClear'
<1> USE DEF TypeOK, ShutdownIsClear, Ending, clients
<1>1. CASE NewClientSets(i) \/ MakeDirectories(i) \/ NotifyContext(i) \/ NewDriver(i)
  <2>1. PICK s \in Fallible \cup {"signals"} :
            /\ stage[i] = s /\ stage' = [stage EXCEPT ![i] = Following(s)]
            /\ UNCHANGED clients
    BY <1>1 DEF NewClientSets, MakeDirectories, NotifyContext, NewDriver, NewDeviceState,
                EnumerateDevices, CreateCommonSpecFile, OpenServices, startHealthcheck,
                PublishResources, Step, Fallible
  <2>2. stage'[i] \notin Ending /\ stage[i] \notin Ending
    BY <2>1 DEF Following, Fallible
  <2>3. \A j \in Instances \ {i} :
            stage'[j] = stage[j] /\ caught'[j] = caught[j] /\ listening'[j] = listening[j]
            /\ served'[j] = served[j]
    BY <1>1, <2>1 DEF NewClientSets, MakeDirectories, NotifyContext, NewDriver, NewDeviceState,
                EnumerateDevices, CreateCommonSpecFile, OpenServices, startHealthcheck,
                PublishResources, servers
  <2> QED BY <2>1, <2>2, <2>3
<1>2. CASE StartFails(i)
  BY <1>2, ClearEnd DEF StartFails
<1>3. CASE RestoreSignals(i)
  BY <1>3 DEF RestoreSignals, servers
<1>4. CASE GracefulStop(i)
  BY <1>4 DEF GracefulStop
<1>5. CASE Drained(i)
  BY <1>5 DEF Drained, servers
<1>6. CASE StopHelper(i)
  BY <1>6 DEF StopHelper
<1>7. CASE HelperStopped(i)
  BY <1>7, ClearEnd DEF HelperStopped
<1> QED BY <1>1, <1>2, <1>3, <1>4, <1>5, <1>6, <1>7 DEF RunPlugin, Shutdown

LEMMA ClearOthers ==
    ASSUME TypeOK, ShutdownIsClear, NEW i \in Instances, Check(i) \/ Environment(i)
    PROVE  ShutdownIsClear'
<1> USE DEF TypeOK, ShutdownIsClear, Ending, main, servers, clients
<1>1. CASE Launch(i)
  BY <1>1 DEF Launch
<1>2. CASE Signal(i)
  <2>1. CASE End({i})
    BY <2>1, ClearEnd
  <2>2. CASE UNCHANGED <<stage, caught, servers, clients>>
    BY <2>2
  <2> QED BY <1>2, <2>1, <2>2 DEF Signal
<1>3. CASE HandleError(i)
  BY <1>3 DEF HandleError
<1>4. CASE HelperReacts(i)
  BY <1>4 DEF HelperReacts
<1>5. CASE Crash(i)
  BY <1>5, ClearEnd DEF Crash
<1>6. CASE Call(i) \/ CallBegins(i) \/ CallEnds(i)
  BY <1>6, NoneAssumption DEF Call, CallBegins, CallEnds
<1>7. CASE Probe(i) \/ Check(i) \/ ProbeTimesOut(i)
  <2>1. UNCHANGED <<stage, caught, listening, served, call, lock>>
    BY <1>7 DEF Probe, Check, GetInfo, NodePrepareResources, Responds, ProbeTimesOut
  <2>2. ASSUME NEW j \in Instances, check'[j] # check[j]
        PROVE  stage[j] \notin {"stopHelper", "closing"}
    <3>1. j = i
      BY <1>7, <2>2 DEF Probe, Check, GetInfo, NodePrepareResources, Responds, ProbeTimesOut,
                        CheckAt
    <3> QED BY <1>7, <3>1 DEF Probe, Check, GetInfo, NodePrepareResources, Responds,
                              ProbeTimesOut, InFlight, Answered
  <2> QED BY <2>1, <2>2
<1> QED BY <1>1, <1>2, <1>3, <1>4, <1>5, <1>6, <1>7 DEF Environment

(* Nothing that Shutdown waits for waits for the process that shuts down,  *)
(* nothing is added to it meanwhile, and a second signal ends the wait.    *)
THEOREM NothingHoldsShutdown == Spec => []ShutdownIsClear
<1>1. Init => ShutdownIsClear
  <2> SUFFICES ASSUME Init, NEW i \in Instances
               PROVE  stage[i] = "off" /\ lock # i /\ call[i] # "serving"
    BY DEF ShutdownIsClear, Ending
  <2> QED BY NoneAssumption DEF Init
<1>2. TypeOK /\ ShutdownIsClear /\ [Next]_vars => ShutdownIsClear'
  <2> SUFFICES ASSUME TypeOK, ShutdownIsClear, [Next]_vars PROVE ShutdownIsClear'
    OBVIOUS
  <2>1. CASE Reboot
    BY <2>1, ClearEnd DEF Reboot
  <2>2. CASE UNCHANGED vars
    BY <2>2 DEF vars, main, servers, clients, ShutdownIsClear
  <2> QED BY <2>1, <2>2, ClearMain, ClearOthers DEF Next
<1> QED BY <1>1, <1>2, LifecycleTypeCorrect, PTL DEF Spec
=============================================================================
