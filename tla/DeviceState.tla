---------------------------- MODULE DeviceState ----------------------------
(***************************************************************************)
(* The kubelet plugin's DeviceState: what PrepareResourceClaims and        *)
(* UnprepareResourceClaims do to a node.                                   *)
(*                                                                         *)
(* A call carries a batch of claims and runs in a gRPC handler of one of   *)
(* the driver's instances.  During a rolling update two instances, the old *)
(* and the new pod of the DaemonSet, share everything on the disk: the     *)
(* checkpoint, the directories of the claims and the CDI specs.  A handler *)
(* works on one claim at a time under the DeviceState's mutex and touches  *)
(* the three stores one after the other; between any two of its steps      *)
(* other handlers run, and the process may die.                            *)
(*                                                                         *)
(* External, modelled from how the driver uses them: the kubelet (when it  *)
(* asks for what), the kubeletplugin helper (its lock around a whole       *)
(* call), the CDI library (a spec file is written or removed atomically    *)
(* and must not name a device twice) and the file system.                  *)
(***************************************************************************)
EXTENDS StableName

CONSTANTS
    Instances,      \* driver processes that may run on the node
    Handlers,       \* gRPC handler goroutines
    InstanceOf,     \* [Handlers -> Instances]
    Claims,         \* UIDs of ResourceClaims
    Claim,          \* [Claims -> [name, results, configs]]: the API object
    DriverName,
    DeviceSets,     \* the device sets an instance may be configured with
    None,           \* no handler, no claim
    NoDir,          \* a directory that does not exist
    NoMetadata,     \* a directory without a readable device.json
    CommonSpec,     \* the CDI spec with the driver's common device
    Serialize,      \* does the helper run one call at a time?
    Timeouts,       \* may the kubelet give up on a call that is running?
    Reuse,          \* may a pod claim what is still being unprepared?
    Reboots,        \* does a crash also reboot the node?
    Faults,         \* the I/O operations that may fail
    MaxFaults,      \* bound on the failures of I/O operations
    MaxCrashes      \* bound on the crashes

VARIABLES
    \* on the node's disk, shared by the instances
    checkpoint,     \* entries per claim in Checkpoint.PreparedClaims
    hostDir,        \* per path: NoDir, NoMetadata or device.json's device
    roots,          \* the {base}/{stable-claim-name} directories that exist
    specs,          \* the CDI spec files that exist
    \* in an instance
    up,             \* does the process run?
    allocatable,    \* DeviceState.allocatable
    mutex,          \* who holds DeviceState's sync.Mutex
    serial,         \* who holds the helper's lock
    \* in a handler
    pc,             \* where it is
    call,           \* the request: its operation, claims, and whether the
                    \* kubelet still waits for the response
    todo,           \* claims of the request that the loop has not reached
    done,           \* claims of the request that succeeded
    cur,            \* the claim at hand
    cp,             \* the Checkpoint object in memory
    \* in the kubelet
    view,           \* what it knows or wants of each claim
    \* bounds
    faults, crashes

disk    == <<checkpoint, hostDir, roots, specs>>
process == <<up, allocatable, mutex, serial>>
handler == <<pc, call, todo, done, cur, cp>>
bounds  == <<faults, crashes>>
vars    == <<disk, process, handler, view, bounds>>

-----------------------------------------------------------------------------
(* What a claim asks for. *)

Results(c) == Claim[c].results

(* The loops skip "allocations meant for other drivers". *)
OwnResults(c) ==
    {k \in 1 .. Len(Results(c)) : Results(c)[k].driver = DriverName}

Devices(c) == {Results(c)[k].device : k \in 1 .. Len(Results(c))}
OwnDevices(c) == {Results(c)[k].device : k \in OwnResults(c)}

(* Directory path format: {base}/{stable-claim-name}/{request-name}. *)
StableNames == [c \in Claims |-> extractStableClaimName(Claim[c].name)]
Root(c) == StableNames[c]
ClaimDir(c, request) == <<Root(c), request>>

ResultDir(c, k) == ClaimDir(c, Results(c)[k].request)

Paths == UNION {{ResultDir(c, k) : k \in 1 .. Len(Results(c))} : c \in Claims}

AllDevices == UNION {Devices(c) : c \in Claims}

ASSUME HandlersAssumption ==
    /\ InstanceOf \in [Handlers -> Instances]
    /\ None \notin Handlers \cup Claims

ASSUME ClaimAssumption ==
    Claim \in [Claims -> [name    : Seq(STRING),
                         results : Seq([driver : STRING, request : STRING, device : STRING]),
                         configs : SUBSET [source : STRING, opaque : BOOLEAN, driver : STRING]]]

(* The kubelet calls a driver for the claims that have a result for it. *)
ASSUME OwnResultAssumption == \A c \in Claims : OwnResults(c) # {}

(* The values that are not devices or claims are different from them. *)
ASSUME ValuesAssumption ==
    /\ CommonSpec \notin Claims
    /\ {NoDir, NoMetadata} \cap AllDevices = {}
    /\ NoDir # NoMetadata

(* PreparedClaim.DeviceRequests: a later result with the same device       *)
(* overwrites an earlier one.                                              *)
DeviceRequests(c) ==
    [d \in Devices(c) |->
        Results(c)[Max({k \in 1 .. Len(Results(c)) : Results(c)[k].device = d})].request]

(* ApplyConfig: the directories that a container of the claim mounts. *)
MountedDirs(c) == {ResultDir(c, k) : k \in OwnResults(c)}

(* GetClaimDevices: the CDI specs with the device ids Prepare answers.  *)
GetClaimDevices(c) == {c, CommonSpec}

(* The directories unprepareDevices derives from a checkpoint entry.       *)
(* Mutant: those of the full name of the claim.                            *)
WithFullName(c) == {<<Claim[c].name, DeviceRequests(c)[d]>> : d \in Devices(c)}
RecordedDirs(c) == {ClaimDir(c, DeviceRequests(c)[d]) : d \in Devices(c)}

(* GetOpaqueDeviceConfigs fails on an unknown source, on a config that is  *)
(* not opaque, and on one for this driver: the network profile registers   *)
(* no config type, so the decoder knows none.                              *)
ConfigError(c) ==
    \E config \in Claim[c].configs :
        \/ config.source \notin {"FromClass", "FromClaim"}
        \/ ~config.opaque
        \/ config.driver = DriverName

(* computeDeviceConfig has no side effects; it succeeds or fails. *)
computeDeviceConfig(devices, c) ==
    ~ConfigError(c) /\ \A k \in OwnResults(c) : Results(c)[k].device \in devices

(* The CDI library refuses a spec with two devices of the same name.  *)
ValidSpec(c) ==
    \A j, k \in OwnResults(c) : Results(c)[j].device = Results(c)[k].device => j = k

-----------------------------------------------------------------------------
(* The checkpoint in memory. *)

EmptyCheckpoint == [c \in Claims |-> 0]

(* Appends an entry.  Mutant: the entry is forgotten. *)
AddsNothing(k, c) == k
addClaimToCheckpoint(k, c) == [k EXCEPT ![c] = @ + 1]

(* slices.DeleteFunc removes every entry with the UID.  Mutants: nothing   *)
(* is removed; a counter is decremented.                                   *)
KeepsEntry(k, c) == k
DropsOne(k, c) == [k EXCEPT ![c] = @ - 1]
removeClaimFromCheckpoint(k, c) == [k EXCEPT ![c] = 0]

(* slices.ContainsFunc of the claim's UID.  Mutant: no such check. *)
NeverRecorded(k, c) == FALSE
isRecorded(k, c) == k[c] > 0

(* The directories after createClaimDirectory for the results up to k.     *)
(* Mutants: the loop breaks, instead of going on, at another driver's      *)
(* result; an existing directory is taken to be complete.                  *)
StopsAtForeignResult(c, k) ==
    [p \in Paths |->
        LET made == {j \in OwnResults(c) : /\ j <= k /\ ResultDir(c, j) = p
                                           /\ 1 .. j \subseteq OwnResults(c)}
        IN  IF made = {} THEN hostDir[p] ELSE Results(c)[Max(made)].device]
KeepsExistingDirectory(c, k) ==
    [p \in Paths |->
        LET made == {j \in OwnResults(c) : j <= k /\ ResultDir(c, j) = p}
        IN  IF made = {} \/ hostDir[p] # NoDir
            THEN hostDir[p] ELSE Results(c)[Max(made)].device]
createClaimDirectories(c, k) ==
    [p \in Paths |->
        LET made == {j \in OwnResults(c) : j <= k /\ ResultDir(c, j) = p}
        IN  IF made = {} THEN hostDir[p] ELSE Results(c)[Max(made)].device]

(* What is left when createClaimDirectory fails for result k: the previous *)
(* directories, and for this one nothing new (MkdirAll), a directory       *)
(* (Chown, Chmod), a truncated device.json (WriteFile) or a complete one   *)
(* (Chown of the file).                                                    *)
FailedDirectories(c, k) ==
    LET before == createClaimDirectories(c, k - 1)
        p      == ResultDir(c, k)
    IN  {[before EXCEPT ![p] = left] :
            left \in {before[p], NoMetadata, Results(c)[k].device}}

deleteClaimDirectories(removed) ==
    [p \in Paths |-> IF p \in removed THEN NoDir ELSE hostDir[p]]

(* RemoveAll may fail before or after it has removed device.json. *)
FailedRemovals(removed) ==
    {dirs \in [Paths -> {NoDir, NoMetadata} \cup AllDevices] :
        \A p \in Paths :
            \/ dirs[p] = hostDir[p]
            \/ p \in removed /\ dirs[p] = NoDir
            \/ p \in removed /\ hostDir[p] # NoDir /\ dirs[p] = NoMetadata}

-----------------------------------------------------------------------------
(* Control. *)

Idle == [op |-> "none", claims |-> {}, live |-> FALSE]

(* Where a handler is between Lock and Unlock. *)
Inside == {"read", "dirs", "spec", "rmdirs", "rmspec", "save"}

TypeOK ==
    /\ checkpoint \in [Claims -> Nat]
    /\ hostDir \in [Paths -> {NoDir, NoMetadata} \cup AllDevices]
    /\ roots \subseteq {Root(c) : c \in Claims}
    /\ specs \subseteq Claims \cup {CommonSpec}
    /\ up \in [Instances -> BOOLEAN]
    /\ allocatable \in [Instances -> DeviceSets \cup {{}}]
    /\ mutex \in [Instances -> Handlers \cup {None}]
    /\ serial \in Handlers \cup {None}
    /\ pc \in [Handlers -> {"idle", "called", "serving", "read", "dirs", "spec",
                            "rmdirs", "rmspec", "save"}]
    /\ call \in [Handlers -> [op : {"none", "prepare", "unprepare"},
                              claims : SUBSET Claims, live : BOOLEAN]]
    /\ todo \in [Handlers -> SUBSET Claims]
    /\ done \in [Handlers -> SUBSET Claims]
    /\ cur \in [Handlers -> Claims \cup {None}]
    /\ cp \in [Handlers -> [Claims -> Nat]]
    /\ view \in [Claims -> {"idle", "preparing", "prepared", "unpreparing"}]
    /\ faults \in Nat
    /\ crashes \in Nat

Init ==
    /\ checkpoint = EmptyCheckpoint
    /\ hostDir = [p \in Paths |-> NoDir]
    /\ roots = {}
    /\ specs = {}
    /\ up = [i \in Instances |-> FALSE]
    /\ allocatable = [i \in Instances |-> {}]
    /\ mutex = [i \in Instances |-> None]
    /\ serial = None
    /\ pc = [h \in Handlers |-> "idle"]
    /\ call = [h \in Handlers |-> Idle]
    /\ todo = [h \in Handlers |-> {}]
    /\ done = [h \in Handlers |-> {}]
    /\ cur = [h \in Handlers |-> None]
    /\ cp = [h \in Handlers |-> EmptyCheckpoint]
    /\ view = [c \in Claims |-> "idle"]
    /\ faults = 0
    /\ crashes = 0

(* An I/O operation succeeds, or fails. *)
NoFault == UNCHANGED bounds

Fault(kind) ==
    /\ kind \in Faults
    /\ faults < MaxFaults
    /\ faults' = faults + 1
    /\ UNCHANGED crashes

Goto(h, from, to) ==
    /\ pc[h] = from
    /\ pc' = [pc EXCEPT ![h] = to]

(* A step inside Prepare or Unprepare after which the call goes on. *)
Continue(h, from, to) ==
    /\ Goto(h, from, to)
    /\ UNCHANGED <<process, call, todo, done, cur, view>>

(* Prepare or Unprepare returns for the claim at hand: the deferred Unlock *)
(* releases the mutex, and the driver records the claim's result.          *)
(* Mutants: an error is only logged; it skips the Unlock.                  *)
DropsError(h, from, ok) ==
    /\ Goto(h, from, "serving")
    /\ mutex' = [mutex EXCEPT ![InstanceOf[h]] = None]
    /\ done' = [done EXCEPT ![h] = @ \cup {cur[h]}]
    /\ cur' = [cur EXCEPT ![h] = None]
    /\ cp' = [cp EXCEPT ![h] = EmptyCheckpoint]
    /\ UNCHANGED <<up, allocatable, serial, call, todo, view>>

KeepsLockOnError(h, from, ok) ==
    /\ Goto(h, from, "serving")
    /\ mutex' = IF ok THEN [mutex EXCEPT ![InstanceOf[h]] = None] ELSE mutex
    /\ done' = [done EXCEPT ![h] = IF ok THEN @ \cup {cur[h]} ELSE @]
    /\ cur' = [cur EXCEPT ![h] = None]
    /\ cp' = [cp EXCEPT ![h] = EmptyCheckpoint]
    /\ UNCHANGED <<up, allocatable, serial, call, todo, view>>

Return(h, from, ok) ==
    /\ Goto(h, from, "serving")
    /\ mutex' = [mutex EXCEPT ![InstanceOf[h]] = None]
    /\ done' = [done EXCEPT ![h] = IF ok THEN @ \cup {cur[h]} ELSE @]
    /\ cur' = [cur EXCEPT ![h] = None]
    /\ cp' = [cp EXCEPT ![h] = EmptyCheckpoint]
    /\ UNCHANGED <<up, allocatable, serial, call, todo, view>>

-----------------------------------------------------------------------------
(* The kubelet (external). *)

(* A call the kubelet waits for has claim c in its batch. *)
Busy(c) == \E h \in Handlers : call[h].live /\ c \in call[h].claims

(* A pod that references the claim is admitted to the node. *)
PodAdded(c) ==
    /\ view[c] = "idle" \/ (Reuse /\ view[c] = "unpreparing")
    /\ ~Busy(c)
    /\ view' = [view EXCEPT ![c] = "preparing"]
    /\ UNCHANGED <<disk, process, handler, bounds>>

(* The last pod that references the claim is gone. *)
PodRemoved(c) ==
    /\ view[c] \in {"preparing", "prepared"}
    /\ ~Busy(c)
    /\ view' = [view EXCEPT ![c] = "unpreparing"]
    /\ UNCHANGED <<disk, process, handler, bounds>>

(* A restarted kubelet prepares the claims of its pods again. *)
Forgotten == [c \in Claims |-> IF view[c] = "prepared" THEN "preparing" ELSE view[c]]

KubeletRestarts ==
    /\ Timeouts \/ \A h \in Handlers : ~call[h].live
    /\ view' = Forgotten
    /\ call' = [h \in Handlers |-> [call[h] EXCEPT !.live = FALSE]]
    /\ UNCHANGED <<disk, process, pc, todo, done, cur, cp, bounds>>

(* NodePrepareResources or NodeUnprepareResources for a batch of claims. *)
Request(h, op, batch) ==
    /\ up[InstanceOf[h]]
    /\ batch # {}
    /\ \A c \in batch : ~Busy(c)
    /\ Goto(h, "idle", "called")
    /\ call' = [call EXCEPT ![h] = [op |-> op, claims |-> batch, live |-> TRUE]]
    /\ todo' = [todo EXCEPT ![h] = batch]
    /\ UNCHANGED <<disk, process, done, cur, cp, view, bounds>>

PrepareRequest(h, batch) ==
    /\ \A c \in batch : view[c] = "preparing"
    /\ Request(h, "prepare", batch)

UnprepareRequest(h, batch) ==
    /\ \A c \in batch : view[c] = "unpreparing"
    /\ Request(h, "unprepare", batch)

(* The kubelet's deadline passes; the handler does not look at its context *)
(* and goes on.                                                            *)
GiveUp(h) ==
    /\ Timeouts
    /\ call[h].live
    /\ call' = [call EXCEPT ![h].live = FALSE]
    /\ UNCHANGED <<disk, process, pc, todo, done, cur, cp, view, bounds>>

-----------------------------------------------------------------------------
(* The driver's loop over the claims of a request. *)

(* The driver starts the helper with its default, which runs one call at a *)
(* time across all instances.  Mutant: the option Serialize(false).        *)
NotSerialized == TRUE
SerialFree == Serialize => serial = None

(* The helper's lock (external). *)
BeginCall(h) ==
    /\ SerialFree
    /\ serial' = IF Serialize THEN h ELSE serial
    /\ Goto(h, "called", "serving")
    /\ UNCHANGED <<disk, up, allocatable, mutex, call, todo, done, cur, cp, view, bounds>>

(* s.Lock() of an instance.  Mutant: no lock. *)
NeverLocked(i) == TRUE
Unlocked(i) == mutex[i] = None

Lock(h) ==
    \E c \in todo[h] :
        /\ Unlocked(InstanceOf[h])
        /\ Goto(h, "serving", "read")
        /\ mutex' = [mutex EXCEPT ![InstanceOf[h]] = h]
        /\ cur' = [cur EXCEPT ![h] = c]
        /\ todo' = [todo EXCEPT ![h] = @ \ {c}]
        /\ UNCHANGED <<disk, up, allocatable, serial, call, done, cp, view, bounds>>

(* The response: the kubelet learns which claims succeeded. *)
Outcome(op) == IF op = "prepare" THEN "prepared" ELSE "idle"

Reply(h) ==
    /\ todo[h] = {}
    /\ Goto(h, "serving", "idle")
    /\ serial' = IF serial = h THEN None ELSE serial
    /\ view' = [c \in Claims |-> IF call[h].live /\ c \in done[h]
                                 THEN Outcome(call[h].op) ELSE view[c]]
    /\ call' = [call EXCEPT ![h] = Idle]
    /\ done' = [done EXCEPT ![h] = {}]
    /\ UNCHANGED <<disk, up, allocatable, mutex, todo, cur, cp, bounds>>
-----------------------------------------------------------------------------
(* Prepare. *)

PrepareReads(h) == pc[h] = "read" /\ call[h].op = "prepare"

(* restoreClaimFromCheckpoint: a recorded claim is answered from its       *)
(* allocation; nothing on the disk is looked at or repaired.  Mutant: it   *)
(* is an error to prepare a claim twice.                                   *)
RefusesRecorded(h) ==
    /\ PrepareReads(h)
    /\ isRecorded(checkpoint, cur[h])
    /\ Return(h, "read", FALSE)
    /\ NoFault
    /\ UNCHANGED disk

PrepareRestored(h) ==
    /\ PrepareReads(h)
    /\ isRecorded(checkpoint, cur[h])
    /\ Return(h, "read", computeDeviceConfig(allocatable[InstanceOf[h]], cur[h]))
    /\ NoFault
    /\ UNCHANGED disk

PrepareReadCheckpoint(h) ==
    /\ PrepareReads(h)
    /\ ~isRecorded(checkpoint, cur[h])
    /\ cp' = [cp EXCEPT ![h] = checkpoint]
    /\ Continue(h, "read", "dirs")
    /\ NoFault
    /\ UNCHANGED disk

PrepareReadFails(h) ==
    /\ PrepareReads(h)
    /\ Return(h, "read", FALSE)
    /\ Fault("read")
    /\ UNCHANGED disk

(* prepareDevices: the directories come first, then computeDeviceConfig,   *)
(* whose failure leaves the directories behind.  On success the claim is   *)
(* added to the checkpoint in memory.                                      *)
PrepareDevices(h) ==
    LET c == cur[h]
    IN  /\ pc[h] = "dirs"
        /\ hostDir' = createClaimDirectories(c, Len(Results(c)))
        /\ roots' = roots \cup {Root(c)}
        /\ IF computeDeviceConfig(allocatable[InstanceOf[h]], c)
           THEN /\ Continue(h, "dirs", "spec")
                /\ cp' = [cp EXCEPT ![h] = addClaimToCheckpoint(@, c)]
           ELSE Return(h, "dirs", FALSE)
        /\ NoFault
        /\ UNCHANGED <<checkpoint, specs>>

PrepareDevicesFails(h) ==
    LET c == cur[h]
    IN  /\ pc[h] = "dirs"
        /\ \E k \in OwnResults(c) : hostDir' \in FailedDirectories(c, k)
        /\ roots' \in {roots, roots \cup {Root(c)}}
        /\ hostDir' # hostDir => Root(c) \in roots'
        /\ Return(h, "dirs", FALSE)
        /\ Fault("dirs")
        /\ UNCHANGED <<checkpoint, specs>>

CreateClaimSpecFile(h) ==
    /\ pc[h] = "spec"
    /\ ValidSpec(cur[h])
    /\ specs' = specs \cup {cur[h]}
    /\ Continue(h, "spec", "save")
    /\ NoFault
    /\ UNCHANGED <<checkpoint, hostDir, roots, cp>>

CreateClaimSpecFileFails(h) ==
    /\ pc[h] = "spec"
    /\ IF ValidSpec(cur[h]) THEN Fault("spec") ELSE NoFault
    /\ Return(h, "spec", FALSE)
    /\ UNCHANGED disk

-----------------------------------------------------------------------------
(* Unprepare. *)

UnprepareReads(h) == pc[h] = "read" /\ call[h].op = "unprepare"

(* The claim need not be recorded.  Mutant: it is an error if it is not. *)
RefusesUnrecorded(h) ==
    /\ UnprepareReads(h)
    /\ IF isRecorded(checkpoint, cur[h])
       THEN cp' = [cp EXCEPT ![h] = checkpoint] /\ Continue(h, "read", "rmdirs")
       ELSE Return(h, "read", FALSE)
    /\ NoFault
    /\ UNCHANGED disk

UnprepareReadCheckpoint(h) ==
    /\ UnprepareReads(h)
    /\ cp' = [cp EXCEPT ![h] = checkpoint]
    /\ Continue(h, "read", "rmdirs")
    /\ NoFault
    /\ UNCHANGED disk

(* unprepareDevices, whose errors are only logged, for an entry of the     *)
(* checkpoint; then the claim is removed from the checkpoint in memory.    *)
UnprepareDevices(h) ==
    LET c       == cur[h]
        removed == IF isRecorded(cp[h], c) THEN RecordedDirs(c) ELSE {}
    IN  /\ pc[h] = "rmdirs"
        /\ \/ /\ hostDir' = deleteClaimDirectories(removed)
              /\ NoFault
           \/ /\ removed # {}
              /\ hostDir' \in FailedRemovals(removed)
              /\ Fault("remove")
        /\ cp' = [cp EXCEPT ![h] = removeClaimFromCheckpoint(@, c)]
        /\ Continue(h, "rmdirs", "rmspec")
        /\ UNCHANGED <<checkpoint, roots, specs>>

(* A spec that does not exist is not an error. *)
DeleteClaimSpecFile(h) ==
    /\ specs' = specs \ {cur[h]}
    /\ Continue(h, "rmspec", "save")
    /\ NoFault
    /\ UNCHANGED <<checkpoint, hostDir, roots, cp>>

DeleteClaimSpecFileFails(h) ==
    /\ Return(h, "rmspec", FALSE)
    /\ Fault("spec")
    /\ UNCHANGED disk

-----------------------------------------------------------------------------
(* The last step of both. *)

(* writeCheckpoint replaces the file by a rename. *)
WriteCheckpoint(h) ==
    /\ checkpoint' = cp[h]
    /\ Return(h, "save", TRUE)
    /\ NoFault
    /\ UNCHANGED <<hostDir, roots, specs>>

(* It may fail before the rename, or after it (Close).  Mutant: the caller *)
(* does not look at the error.                                             *)
IgnoresWriteError(h) ==
    /\ checkpoint' \in {checkpoint, cp[h]}
    /\ Return(h, "save", TRUE)
    /\ Fault("write")
    /\ UNCHANGED <<hostDir, roots, specs>>

WriteCheckpointFails(h) ==
    /\ checkpoint' \in {checkpoint, cp[h]}
    /\ Return(h, "save", FALSE)
    /\ Fault("write")
    /\ UNCHANGED <<hostDir, roots, specs>>

-----------------------------------------------------------------------------
(* Processes. *)

(* A dead process takes its handlers and its locks along.  The kubelet     *)
(* sees its calls fail.                                                    *)
Die(dead) ==
    LET lost == {h \in Handlers : InstanceOf[h] \in dead}
        Reset(f, v) == [h \in Handlers |-> IF h \in lost THEN v ELSE f[h]]
    IN  /\ up' = [i \in Instances |-> up[i] /\ i \notin dead]
        /\ allocatable' = [i \in Instances |-> IF i \in dead THEN {} ELSE allocatable[i]]
        /\ mutex' = [i \in Instances |-> IF i \in dead THEN None ELSE mutex[i]]
        /\ serial' = IF serial \in lost THEN None ELSE serial
        /\ pc' = Reset(pc, "idle")
        /\ call' = Reset(call, Idle)
        /\ todo' = Reset(todo, {})
        /\ done' = Reset(done, {})
        /\ cur' = Reset(cur, None)
        /\ cp' = Reset(cp, EmptyCheckpoint)

(* NewDeviceState: the profile's devices, and the common CDI spec, before  *)
(* the helper opens the gRPC services.                                     *)
CreateCommonSpecFile == specs' = specs \cup {CommonSpec}

Start(i) ==
    /\ ~up[i]
    /\ up' = [up EXCEPT ![i] = TRUE]
    /\ \E devices \in DeviceSets : allocatable' = [allocatable EXCEPT ![i] = devices]
    /\ CreateCommonSpecFile
    /\ UNCHANGED <<checkpoint, hostDir, roots, mutex, serial, handler, view, bounds>>

(* SIGTERM at the end of a rolling update. *)
Shutdown(i) ==
    /\ up[i]
    /\ \A h \in Handlers : InstanceOf[h] = i => pc[h] = "idle"
    /\ Die({i})
    /\ UNCHANGED <<disk, view, bounds>>

Crash(i) ==
    /\ up[i]
    /\ crashes < MaxCrashes
    /\ crashes' = crashes + 1
    /\ Die({i})
    /\ UNCHANGED <<disk, view, faults>>

(* A reboot empties /var/run, where the directories and the CDI specs are. *)
(* The checkpoint is in the kubelet's plugin directory.                    *)
Reboot ==
    /\ Reboots
    /\ crashes < MaxCrashes
    /\ crashes' = crashes + 1
    /\ Die(Instances)
    /\ hostDir' = [p \in Paths |-> NoDir]
    /\ roots' = {}
    /\ specs' = {}
    /\ view' = Forgotten
    /\ UNCHANGED <<checkpoint, faults>>

(* Unprepare cannot read the checkpoint: it writes an empty one and goes   *)
(* on with the nil pointer readCheckpoint returned, which ends the         *)
(* process; if the write fails too, Unprepare fails.                       *)
UnprepareReadFails(h) ==
    /\ UnprepareReads(h)
    /\ Fault("read")
    /\ checkpoint' = EmptyCheckpoint
    /\ Die({InstanceOf[h]})
    /\ UNCHANGED <<hostDir, roots, specs, view>>

UnprepareReplaceFails(h) ==
    /\ UnprepareReads(h)
    /\ {"read", "write"} \subseteq Faults
    /\ Fault("read")
    /\ checkpoint' \in {checkpoint, EmptyCheckpoint}
    /\ Return(h, "read", FALSE)
    /\ UNCHANGED <<hostDir, roots, specs>>

-----------------------------------------------------------------------------

Prepare(h) ==
    \/ PrepareRestored(h)
    \/ PrepareReadCheckpoint(h)
    \/ PrepareReadFails(h)
    \/ PrepareDevices(h)
    \/ PrepareDevicesFails(h)
    \/ CreateClaimSpecFile(h)
    \/ CreateClaimSpecFileFails(h)

Unprepare(h) ==
    \/ UnprepareReadCheckpoint(h)
    \/ UnprepareReadFails(h)
    \/ UnprepareReplaceFails(h)
    \/ UnprepareDevices(h)
    \/ DeleteClaimSpecFile(h)
    \/ DeleteClaimSpecFileFails(h)

Handle(h) ==
    \/ BeginCall(h)
    \/ Lock(h)
    \/ Prepare(h)
    \/ Unprepare(h)
    \/ WriteCheckpoint(h)
    \/ WriteCheckpointFails(h)
    \/ Reply(h)

Kubelet ==
    \/ \E c \in Claims : PodAdded(c) \/ PodRemoved(c)
    \/ KubeletRestarts
    \/ \E h \in Handlers :
           \/ \E batch \in SUBSET Claims : PrepareRequest(h, batch) \/ UnprepareRequest(h, batch)
           \/ GiveUp(h)

Processes ==
    \/ \E i \in Instances : Start(i) \/ Shutdown(i) \/ Crash(i)
    \/ Reboot

Next == Kubelet \/ Processes \/ \E h \in Handlers : Handle(h)

Spec == Init /\ [][Next]_vars

(* Goroutines run; a mutex and a file lock that are released again and     *)
(* again are acquired in the end; the DaemonSet restarts a dead instance;  *)
(* and the kubelet repeats what has not succeeded for as long as the pod   *)
(* is there, or until the claim is unprepared.  Nothing is assumed of pods *)
(* and failures.                                                           *)
Fairness ==
    /\ \A h \in Handlers : /\ WF_vars(Handle(h))
                           /\ SF_vars(Lock(h))
                           /\ SF_vars(BeginCall(h))
    /\ \A i \in Instances : WF_vars(Start(i))
    /\ \A c \in Claims :
           SF_vars(\E h \in Handlers, batch \in SUBSET Claims :
                       c \in batch /\ (PrepareRequest(h, batch) \/ UnprepareRequest(h, batch)))

FairSpec == Spec /\ Fairness

-----------------------------------------------------------------------------
(* Properties. *)

(* What a container that is about to start needs: its CDI device ids       *)
(* resolve, and the directories to mount hold the device.json of a device  *)
(* of this claim.                                                          *)
Usable(c) ==
    /\ GetClaimDevices(c) \subseteq specs
    /\ \A p \in MountedDirs(c) : hostDir[p] \in OwnDevices(c)

(* A claim that was answered with devices stays usable until the kubelet   *)
(* asks to unprepare it, whatever other calls, instances, failures and     *)
(* crashes there are in between: Prepare's answer, new or restored, is     *)
(* about directories and specs that exist.                                 *)
PreparedUsable == \A c \in Claims : view[c] = "prepared" => Usable(c)

(* "Checkpoint contains data about devices prepared for each ResourceClaim *)
(* the driver is responsible for": without the entry Unprepare would not   *)
(* find the claim's directories.                                           *)
CheckpointContainsPrepared ==
    \A c \in Claims : view[c] = "prepared" => isRecorded(checkpoint, c)

(* A successful Unprepare leaves no entry and no CDI spec, and nothing     *)
(* brings them back but a new Prepare.                                     *)
UnpreparedIsGone ==
    \A c \in Claims : view[c] = "idle" => ~isRecorded(checkpoint, c) /\ c \notin specs

(* No lock outlives the call that took it, whatever way the call ends:     *)
(* whoever waits for the helper's lock waits for a call that has it and    *)
(* runs; whoever waits for the mutex waits for a handler of its own        *)
(* process between Lock and Unlock, which waits for nobody, and not even   *)
(* that if the calls are serialized.                                       *)
NobodyLockedOut ==
    \A h \in Handlers :
        /\ pc[h] = "called" => SerialFree \/ pc[serial] \in Inside \cup {"serving"}
        /\ pc[h] = "serving" =>
               LET i == InstanceOf[h] IN
               Unlocked(i) \/ (~Serialize /\ InstanceOf[mutex[i]] = i /\ pc[mutex[i]] \in Inside)

(* However often a claim is prepared, by calls that overlap or were given  *)
(* up, it has one entry: unprepareDevices looks at the first one only.     *)
NoDuplicateEntry == \A c \in Claims : checkpoint[c] <= 1

(* The checkpoint file is replaced as a whole, yet no call loses or        *)
(* changes the entry of a claim it does not work on.                       *)
OnlyOwnEntry ==
    [][\A c \in Claims : checkpoint'[c] # checkpoint[c]
          => \E h \in Handlers : pc[h] = "save" /\ cur[h] = c]_vars

(* "unprepareDevices undoes any side-effects produced by                   *)
(* [DeviceState.prepareDevices]": no directory of a claim outlives a       *)
(* successful Unprepare.                                                   *)
UndoesSideEffects ==
    \A c \in Claims : view[c] = "idle" =>
        \A p \in MountedDirs(c) : hostDir[p] = NoDir

(* As far as a claim is recorded, it does: when an Unprepare has dropped   *)
(* the claim's entry, no removal failed and no device of another driver    *)
(* has the name of one of the claim's, all its directories are gone.       *)
Homonyms(c) ==
    \E m \in OwnResults(c), n \in DOMAIN Results(c) :
        Results(c)[m].device = Results(c)[n].device /\ Results(c)[m].request # Results(c)[n].request

RecordedIsUndone ==
    [][\A h \in Handlers, c \in Claims :
           ( /\ pc[h] = "save" /\ call[h].op = "unprepare" /\ cur[h] = c
             /\ checkpoint[c] > 0 /\ checkpoint'[c] = 0
             /\ "remove" \notin Faults /\ ~Homonyms(c) )
           => \A p \in MountedDirs(c) : hostDir[p] = NoDir]_vars

(* The kubelet gets rid of every claim it wants to unprepare: a failed     *)
(* call, a crashed instance or a half-prepared claim is never in the way.  *)
UnprepareCompletes ==
    \A c \in Claims : view[c] = "unpreparing" ~> view[c] = "idle"

(* An instance that no longer has a device of the claim does not prepare   *)
(* it, recorded or not.                                                    *)
Refuses(i, c) == up[i] /\ ~computeDeviceConfig(allocatable[i], c)

(* A claim that fits into a CDI spec is prepared unless its pod goes away, *)
(* if in the end no instance refuses it: nothing that was left behind by   *)
(* an instance that did, or by a failed call, is in the way.               *)
PrepareCompletes ==
    \A c \in Claims : ValidSpec(c) =>
        (view[c] = "preparing" ~> \/ view[c] \in {"prepared", "unpreparing"}
                                  \/ \E i \in Instances : Refuses(i, c))

(* What there is of a claim: neither entry nor spec, everything a          *)
(* container needs, or something in between.                               *)
Gone(c) == checkpoint[c] = 0 /\ c \notin specs

Status(c) ==
    IF Gone(c) THEN "nothing" ELSE IF Usable(c) THEN "usable" ELSE "partial"

Ledger == INSTANCE ClaimLedger WITH status <- [c \in Claims |-> Status(c)]

(* The plugin keeps the promises of ClaimLedger: calls of several handlers *)
(* and instances, failures and crashes change a claim on the node only     *)
(* while the kubelet wants it prepared or unprepared, and no result says   *)
(* so before it is true.                                                   *)
ImplementsLedger == Ledger!Spec
=============================================================================
