# dra-example-driver in TLA+

A formal model of the network DRA driver in this repository: a kubelet plugin
that prepares and unprepares ResourceClaims on a node, for KubeVirt virtual
machines among others. The modules are translated from the Go sources;
`PROJECT.json` maps every definition to the lines it stands for.

    tlc  -workers 2 -config MCDeviceState_rolling.cfg MCDeviceState.tla
    tlapm DeviceState_proofs.tla

## The system

| component | state | operations | module |
|---|---|---|---|
| Stable claim names (`state.go`, `network.go`) | none | `extractStableClaimName`: claim name to directory name | `StableName`, `LauncherClaims` |
| DeviceState (`state.go`) | mutex, `allocatable`; on disk the checkpoint and the claim directories | `NewDeviceState`, `Prepare`, `Unprepare` | `DeviceState`, `ClaimLedger` |
| its configs and device status (`state.go`) | none; the ResourceClaim in the API server | `computeDeviceConfig`, `GetOpaqueDeviceConfigs`, `updateDeviceStatus` | `DeviceConfigs`, `DeviceStatus`, `PrepareDevices` |
| Checkpoint file (`checkpoint.go`) | one JSON file in the plugin's directory | `readCheckpoint`, `writeCheckpoint` | `CheckpointFile`, `CheckpointRegister` |
| CDI handler (`cdi.go`) | one spec file per claim and a common one, in the CDI root | `CreateCommonSpecFile`, `CreateClaimSpecFile`, `DeleteClaimSpecFile`, `GetClaimDevices` | `DeviceState`, `Lifecycle` |
| gRPC driver (`driver.go`) | the helper, the calls in flight | `PrepareResourceClaims`, `UnprepareResourceClaims`; `NewDriver`, `HandleError`, `Shutdown` | `DeviceState`; `Lifecycle` |
| Network profile (`network.go`) | none | `EnumerateDevices`, `ApplyConfig`, `SchemeBuilder` | `DeviceState`, `Lifecycle` |
| Health check (`health.go`) | gRPC server, connections | `startHealthcheck`, `Check`, `Stop` | `Lifecycle` |
| Process (`main.go`) | contexts, signal handling | `RunPlugin` | `Lifecycle` |
| Checkpoint API (`internal/api/checkpoint`) | none | versioned encoding, conversion, defaulting | - |
| Flags (`pkg/flags`) | none | client and logging set-up | a step of `Lifecycle` |

How they interact:

- The kubelet calls `NodePrepareResources` or `NodeUnprepareResources` with a
  batch of claims. The kubeletplugin helper (a library) looks the claims up, takes a
  lock for the rest of the call and calls the driver, which handles the claims one
  after the other and answers with a result per claim.
- `Prepare` and `Unprepare` hold the mutex of *their process* for one claim. They
  read the checkpoint, change a copy of it, touch the directories and the CDI
  specs and write the whole copy back at the end.
- The DaemonSet updates with a surge: the old and the new pod run at the same time
  and serve calls on the same files. Only the helper's lock spans both.
- What is *answered* for a claim (its devices' CDI ids) depends on the checkpoint
  and the allocation. What a container then *needs* is the spec file and the
  directories. The kubelet keeps its own view of which claims are prepared.
- The helper runs background activities and reports their errors to `HandleError`,
  which cancels main's context. The health check calls the helper's sockets the
  way the kubelet does, and waits for the same lock.

What is hard, and therefore modelled in detail:

- *three stores, one of which decides.* Directories, CDI spec and checkpoint change
  in three steps. Failures and crashes fall between them, and only the checkpoint
  is looked at later;
- *read - modify - write of one file* for all claims, by several handlers and two
  processes, with a file system below that keeps its own order;
- *repetition.* The kubelet repeats what failed, prepares again after its own
  restart, gives up on slow calls that run on, and sends Prepare and Unprepare of
  different claims at the same time;
- *names.* The directory of a claim is computed from its name by cutting out
  generated parts. Two claims that must share a directory (a live migration) must
  map to one name, all others must not;
- *start and end.* Services open one after the other, each step may fail, and the
  end waits for calls and probes that wait for a lock;
- *one object, many writers.* The device status is written to a claim that the
  scheduler, the kubelet and other drivers change;
- *maps.* Go ranges over them in any order, and a claim must come out the same.

What makes each component correct:

- *stable names*: the same directory before and after a migration; different
  directories for different VMs;
- *DeviceState*: what was answered exists on the disk until Unprepare; what was
  unprepared is gone; every call changes its own claim only; no failure, crash or
  half-finished call is in the way of later ones;
- *configs and status*: the documented precedence, the same devices each time,
  nothing of other writers lost;
- *checkpoint file*: a reader sees the last complete version, also after a crash;
- *CDI handler*: a claim's spec exists exactly while it is needed, the common one
  from the start of the service on;
- *driver*: each claim of a batch succeeds or fails for itself;
- *health check and process*: whoever calls finds a complete node; no false alarms;
  a process that was asked to end does.

## The modules

### StableName, LauncherClaims

`StableName` translates `extractStableClaimName`. A name is the sequence of its
`-`-separated parts (Split and Join with `-` are inverse to each other), and
`HashShaped` is the set of parts that pass the test for a pod hash: five letters
or digits. The function exists twice, once for the directory that is made, once
for the one that is mounted. The copies agree line for line and are translated once.

`LauncherClaims` applies it to what KubeVirt does with it: VMs boot, migrate and
end. Their claims get names with two generated hashes. KubeVirt is external;
its actions are what the source comments describe.

### DeviceState

Each variable is a piece of real state:

| variables | in the code |
|---|---|
| `checkpoint` | the entries per UID in the file's `PreparedClaims` (a list, so a count) |
| `hostDir` | per path `{base}/{stable name}/{request}`: no directory, one without a readable `device.json`, or the device in it |
| `roots` | the `{base}/{stable name}` directories |
| `specs` | the CDI spec files: one per claim UID, and the common one |
| `up`, `allocatable`, `mutex`, `serial` | per process: running, the enumerated devices, `DeviceState.Mutex`; the helper's lock |
| `pc`, `call`, `todo`, `done`, `cur`, `cp` | per gRPC handler: place, request, the loop of the driver, the claim at hand, the `Checkpoint` object in memory |
| `view` | what the kubelet knows of a claim: `idle`, `preparing`, `prepared`, `unpreparing` |

A handler passes `idle` - `called` - `serving`, then for each claim `read`,
`dirs`, `spec`, `save` (Prepare) or `read`, `rmdirs`, `rmspec`, `save`
(Unprepare), and replies. Between any two of these steps other handlers run and
the process may die. One step is one operation on one of the stores: with the
mutex held, finer steps differ only for somebody who looks at the disk without it.
What a failed or interrupted operation leaves behind is enumerated
(`FailedDirectories`, `FailedRemovals`, the rename that happened although `Close`
failed). `Return` includes the deferred `Unlock`. Each claim's result goes into
`done`, and `Reply` hands the results to the kubelet if it still waits for them.
The order in which a batch is worked off is left open; the code takes the order of
the request.

Details the model keeps because they matter: the directories are made *before*
`computeDeviceConfig` can fail; a recorded claim is answered without a look at the
disk; `Unprepare` takes its directories from the checkpoint entry only, where the
requests are keyed by device name, other drivers' results included; it logs a
failed removal and goes on; it replaces an unreadable checkpoint by an empty one
and then follows the nil pointer that `readCheckpoint` returned, which ends the
process; a claim with an opaque config for this driver cannot be decoded, because
the profile registers no config type; `{base}/{stable name}` is never removed.

Data is abstracted: names are sequences of parts, devices and requests are
strings in a claim's allocation, a config is its source, kind and driver.
`Shutdown` happens here with no call in flight; a shutdown that cuts calls off is a
`Crash` (what precedes it is `Lifecycle`'s matter).

External, modelled from their use: the kubelet, KubeVirt, the helper's lock
(across processes; the driver does not opt out of it), the CDI library (a spec is
written or removed atomically; two devices of one name are rejected), the
operating system.

### ClaimLedger, what DeviceState implements

`ClaimLedger` says what the plugin promises the kubelet, per claim, without files,
locks, processes or failures: a claim's `status` on the node (`nothing`,
`partial`, `usable`) changes only while the kubelet wants the claim prepared or
unprepared, and an answer is given only for what has been achieved.
`DeviceState!ImplementsLedger` maps `status` to checkpoint entry, spec and
directories. One batch's reply is one `Answer`, so the refinement also says that
all results of a reply are true at the same time, however long ago each claim of
the batch was handled.

### CheckpointFile, CheckpointRegister

`DeviceState` reads and writes the checkpoint in one step each. `CheckpointFile`
shows why it may. It has inodes (`data`, `synced`), the name of the checkpoint
(`path`), and what this name may stand for after a loss of power (`names`: nobody
syncs the directory after the rename). A writer passes `create`, `encode`, `sync`,
`rename`, `close`, a reader `open`, `read`; each may fail and leave what it
has done (`WriteFails`, `ReadFails`), temporary files stay. Threads of two
processes are inside at the same time, since the functions take no lock
themselves. An unsynced file may hold anything after a loss of power.

`CheckpointRegister` is the promise: a write takes effect at one moment between
its call and its answer, or not at all; an error does not say which, and each
error is the error of some I/O operation; a read finds one complete version; a
loss of power brings back a version that was current since the directory reached
the disk. `ImplementsRegister` is the refinement. What it leaves to `DeviceState`:
the register may go *back* on a loss of power. `DeviceState!Reboot` keeps the last
checkpoint, which is what an orderly reboot does.

### Lifecycle

The process: `stage` is what main does next (`clients` - `dirs` - `signals` -
`devices` - `spec` - `services` - `health` - `publish` - `wait` - `stopHealth` -
`drain` - `stopHelper` - `closing`), `caught` and `done` are `NotifyContext` and
the context, `served` and `listening` the two servers, `call` and `check` a call of
the kubelet and a liveness probe in flight, `lock` the helper's lock, `node`
the directories and the common spec. Every step of the start may fail, which ends
the process at once (`StartFails`), whatever is open by then; a signal before
`NotifyContext` or after `stop()` ends it too; `HandleError` may come as soon as
the helper runs, before `NewDriver` has returned. `Check` reaches an instance by the socket's name, which the
health check computes for itself (`SocketOf`); two instances with sockets and
ports of their own overlap in a rolling update. Flags are parsed, and the profile
is looked up, before `clients` ends.

### DeviceConfigs, DeviceStatus, PrepareDevices

What `prepareDevices` does after the directories: `computeDeviceConfig` and, for a
profile that builds a device status, `updateDeviceStatus`. The network profile
decodes no config and builds no status, so `DeviceState` only needs to know
whether `computeDeviceConfig` fails. These modules describe the code itself, which
is generic: `Decodable`, `Rejected` and `Reported` are what a profile decodes, refuses
to apply (`ApplyConfig` may fail) and reports.

`DeviceConfigs` are functions of an allocation: which configs are gathered
(`GetOpaqueDeviceConfigs`), which one a result goes under (`Chosen`), and what the
devices come out as in each order of the map (`Orders`). `DeviceStatus` is
`updateDeviceStatus` against an API server that refuses outdated versions:
`Get`, `UpdateStatus`, `Conflict`, with the retries of `retry.DefaultRetry`, an
answer that gets lost, other errors, and others that write the object.
`PrepareDevices` composes the two: drivers prepare the claim again and again, and a
new call starts from the claim as the last one left it.

## What is checked

| run | question |
|---|---|
| `launcher_claims` | Do migrations keep the directory, and do VMs stay apart (`MigrationKeepsDirectory`, `VMsApart`)? |
| `rolling` | Two instances under the helper's lock, an I/O failure of any kind except an unreadable checkpoint, a crash, restarts with fewer devices: is what the kubelet was told true (`PreparedUsable`, `CheckpointContainsPrepared`, `UnpreparedIsGone`, `ImplementsLedger`), does each call change its own entry only (`OnlyOwnEntry`) and release its locks on every path (`NobodyLockedOut`)? |
| `abandoned` | One instance, calls given up by the kubelet that run on, claims used again while they are unprepared or half unprepared (a spec cannot be removed), a reboot: does the file keep at most one entry per claim (`NoDuplicateEntry`), does no call touch another claim's (`OnlyOwnEntry`), and does no Unprepare, however late, drop an entry whose directories exist (`RecordedIsUndone`)? |
| `liveness` | The checkpoint cannot be read or written, one of the claims cannot be put into a CDI spec, the process dies or comes back without the other claim's device: is every claim unprepared in the end (`UnprepareCompletes`), with all directories that were recorded (`RecordedIsUndone`), and every claim prepared that fits into a spec and that no instance refuses in the end, unless its pod goes away (`PrepareCompletes`); is every answer on the way true (`PreparedUsable`, `UnpreparedIsGone`, `ImplementsLedger`)? |
| `power` | Two instances read and write the checkpoint file while calls fail half-way, processes die and the node loses power: is the file a register (`ImplementsRegister`), and whatever a loss of power brings back complete (`NeverTorn`)? |
| `processes` | Two instances start, fail to start, get signals and fatal errors, crash and reboot: do calls find the directories and the common spec (`CallsFindNode`); does a probe fail only where the process was asked to end (`NoFalseAlarm`); does such a process end, by itself if the calls end (`EndsByItself`), by a second signal if they hang (`EndsIfRepeated`)? |
| `claims` | Two drivers prepare a claim with configs of all kinds, twice, while others write it: the documented precedence (`HighestPrecedence`), the same devices each time (`Deterministic`), no lost change (`OnlyDevices`), five tries given up only after five changes (`OutpacedOnly`)? |

The remaining runs show where a statement in the repository and the code disagree;
each is listed in `PROJECT.json` under "findings" with the text it quotes:

| run | what happens |
|---|---|
| `fiveletter` | A VMI whose own name has a part of five characters (`my-apple`): the part is taken for the pod hash, and the real hash stays in the directory's name. |
| `reboot` | `/var/run` is empty after a reboot, the checkpoint is not. The next Prepare is answered from it; spec and directory are missing. |
| `lostrecord` | Unprepare of one claim cannot read the checkpoint: the entries of all claims are lost, and with them the removal of their directories. |
| `namespaces` | Claims of one name in two namespaces share directory and metadata. |
| `leak` | Prepare fails after it made the directories; nothing removes them. |

The passing runs differ in which behaviours they allow, and a property is only
listed where it is claimed. `PreparedUsable` is claimed without reboots and timeouts,
for claims that do not share a directory and, unless Unprepare always gets to its
end, are not used again before it has.
`CheckpointContainsPrepared` is claimed for a readable checkpoint. `ImplementsLedger`
implies `PreparedUsable` and `UnpreparedIsGone`; these are listed beside it because
they say which promise is broken, and because their proofs carry that of the refinement.

### Bounds

- `DeviceState`: two claims, two handlers, one or two instances, one failure,
  at most one crash. Two claims and two handlers are enough for every
  interference: a step concerns the claim at hand, or one other claim through a
  shared file or directory. One crash or failure at any point, followed by
  everything the kubelet may do afterwards, covers the recoveries; the theorems
  below remove the bounds for the safety properties. `Faults`, `MaxFaults` and
  `MaxCrashes` bound what may fail and how often; `Timeouts`, `Reuse` and `Reboots`
  turn behaviours of the environment on. Where there is one instance, `Serialize`
  is `FALSE`: the helper's lock would hide whether the mutex is needed, and every
  behaviour with the lock is also one without it. The two handlers of `abandoned` are
  interchangeable, hence its symmetry; its properties are safety properties.
- `LauncherClaims`: three VMs, two hashes, template and VMI names chosen to be
  confusable.
- `CheckpointFile`: two processes with one thread each, three inodes (two writes in
  flight beside the current file), three versions, one failure of any kind, one
  death or loss of power. Files are interchangeable, and so are the versions that
  are not empty, hence the symmetry; both properties are safety properties.
- `Lifecycle`: two instances, one error of the background activities, one crash or
  reboot; signals without bound. One instance has the manifest's health check port,
  the other one has the health check disabled. A second probing instance adds
  nothing to either property: a `Check` reads its own instance's services and the
  common lock, and `NoFalseAlarms` is proved for any number.
- `PrepareDevices`: up to two configs of a claim, which compares every pair that the
  precedence can compare; results of the kinds that `computeDeviceConfig` tells
  apart. `Steps` is 5, as in `retry.DefaultRetry`. Two prepares per driver, three
  writes by others: with the four updates of the two drivers enough to outpace an
  update. In this run nothing may be left to do in the end, so it does not look for
  deadlocks; all other runs do.

### Fairness

`DeviceState!FairSpec` assumes that goroutines run (`WF` of `Handle`); that a lock
that is released again and again is acquired in the end (`SF` of `Lock` and
`BeginCall`: `sync.Mutex` hands over to a waiter in starvation mode, the helper's
lock is waited for until it is free); that a dead instance is restarted (the
DaemonSet); and that the kubelet repeats, per claim, what has not succeeded (its pod
workers retry preparing, and unpreparing until it succeeds; `SF` because the claim
may be in another call in between). Nothing is assumed of pods, failures, crashes
and shutdowns: they may happen or not. Failures and crashes are bounded, so "in the
end" means after the last one.

`Lifecycle!FairSpec` assumes that main runs, and nothing else. The two liveness
properties name what more they need. `CallsEnd`: goroutines run, whoever waits for
the lock gets it, and a call that has begun ends. `SignalRepeated`: somebody sends
a signal again to a process that was asked to end, for as long as a signal changes
anything. While signals are caught a further one is a stutter, so this bites
after `stop()` only, and `EndsIfRepeated` holds exactly because `RunPlugin` calls `stop()`
before `Shutdown`, with calls and probes that may hang for ever.

### Looked at, and not reported as a violation of a documented promise

- An Unprepare that removed the directories and then failed, followed by a Prepare of
  the same claim (`Reuse`), answers from an entry whose directories are gone; an
  Unprepare that was given up (`Timeouts`) may finish after the claim was prepared
  again. The kubelet repeats Unprepare until it succeeds.
- A device of another driver with the name of one of ours, under another request, takes
  our place in `DeviceRequests`: Unprepare removes the other request's directory
  and leaves ours. `RecordedIsUndone` excludes this case (`Homonyms`).
- Two devices allocated to one request share one directory, and `device.json` names
  the last one.
- Names are joined with `-`, so the VM `a-b` with template `c` and the VM `a` with
  template `b-c` share a directory (hence "written one after the other" in `VMsApart`).
- The manifest has no readiness probe. In a rolling update the old pod is asked to
  end as soon as the new container runs, so there is a gap in which nobody serves.
- A start that fails after the services are open (`health`, `publish`) exits without
  stopping the helper and cuts off calls; for `DeviceState` that is a `Crash`.
- A fatal background error ends the process with exit status 0.
- A liveness probe waits for the helper's lock behind calls of either instance; what
  the kubelet makes of a probe that takes too long is not in the model.
- The temporary files of failed writes are never removed, and the directory is not
  synced, so that a loss of power may bring back an older checkpoint.
- `updateDeviceStatus` replaces `status.devices` as a whole, other drivers' entries
  included, and does not compare the UID of the claim it has read.
- `prepareDevices` returns the devices in the order of a Go map; `Deterministic` is
  about the set. `restoreClaimFromCheckpoint` has the order of the checkpoint.

## What is proved

All proofs are checked by TLAPS, with no bound on claims, handlers, instances,
devices, threads, files, drivers, failures or crashes. They use the assumptions named
in the modules: `HashShapedAssumption` ("virt", "launcher" and "" are not
hash-shaped), `HashesAssumption` and `VMsAssumption` (generated hashes are
hash-shaped, VMs and templates have names), `OwnResultAssumption` (the kubelet calls
a driver for claims that have a result for it), `PodUIDAssumption` (pods have UIDs of
their own), `StepsAssumption` (at least one try), and those on the types of the
constants (`AllocationsAssumption` and others). TLC evaluates all of them on every run.

`StableName_proofs`: `ExtractLauncherName`, the correctness of the algorithm on
launcher names. The prefix and the claim hash are cut off (`CutLauncherName`), the
scan finds the pod hash first if no earlier part looks like one (`FirstPodHash`),
and the two subsequences around it are the VMI's and the template's name. That a
set of numbers has a least element, which `Min` and `Max` need, follows from the
well-foundedness of `<`.

`LauncherClaims_proofs`: `MigrationStable`, `VMsStayApart` and
`PlainNamesExtracted`, for any set of VMs with `PlainVmiNames` (no part of a VMI's
name looks like a hash). The invariant: a VM's claims carry names made for this
VM. The run `fiveletter` shows that the condition is needed.

`DeviceState_proofs`:

- `TypeCorrect` (`TypeOK`). Not inductive alone: the results of a call are claims
  only because a handler inside Prepare or Unprepare works on a claim
  (`Working`).
- `NoDuplicates` (`NoDuplicateEntry`), with no assumption on locks. The
  strengthening `CopiesUnique` says the same of every copy in memory, and that a
  handler about to add an entry (`pc = "dirs"`) has none of its claim in its copy.
  The check and the write use the same copy, so other writers do not matter here.
- `EntriesAreKept` (`OnlyOwnEntry`), if the helper runs one call at a time or there
  is one instance, and the checkpoint can be read. The invariants: `Locks`
  (whoever is inside holds the mutex of its instance, whoever serves holds the
  helper's lock), hence `MutualExclusion`; and `FreshCopy`, that a copy differs
  from the file at most in the claim at hand. A write by someone else would break
  it; mutual exclusion excludes that. `FreshCopy` itself also holds when reads
  fail; the theorem does not. Both assumptions are needed: without locks TLC finds
  the lost update, and an unreadable checkpoint is run `lostrecord`.
- `EntryDroppedAfterRemoval` (`RecordedIsUndone`), if the helper runs one call at a
  time or there is one instance; timeouts, reboots, crashes and failures are allowed.
  The property is about one step, the write, but what it says was done two steps
  before. The invariant `Undone` carries it: the copy is the file as long as the
  directories have not been removed, and from then on, if the file has an entry, the
  directories are gone (`Cleared`). The recorded directories of a claim without
  homonyms are its mounted ones (`MountedAreRecorded`: whichever request
  is looked up for the name of a device is then the one that got it).
- `LocksAreReleased` (`NobodyLockedOut`), the safety half of "nobody waits for ever": a lock that is held
  is held by a handler that runs (`HeldByWorkers`), so no return path, timeout or death
  leaves one behind; and who has the helper's lock never waits for the mutex.

`HandlerMoves` and `OtherMoves` reduce the steps of the system to a handful of
shapes as far as control goes, so that `Working` and `Locks` are proved once per
shape.

`PreparedClaims_proofs`: `PreparedStaysUsable` (`PreparedUsable`),
`UnpreparedStaysGone` (`UnpreparedIsGone`) and, if the checkpoint can be read,
`PreparedIsRecorded` (`CheckpointContainsPrepared`). They assume `Environment`:
one call at a time or one instance; no two claims with a result of one path
(`SeparateDirectories`; run `namespaces` shows what happens otherwise); no calls
that are given up; no reboot (run `reboot`); and claims that are used again while
they are unprepared (`Reuse`) only where nothing stops an Unprepare half-way, that is
where specs can be removed, the checkpoint can be written and nothing crashes. The runs
`rolling` and `liveness` are instances of it. None of the three properties is
inductive: an answer is given several steps after the work it is about, and may come
from an entry that an earlier, failed call left. The invariant `SystemInv` adds to
`Working`, `Locks` and `FreshCopy`:

- `Calling`: the calls in flight match what the kubelet wants of their claims, no
  claim is in two of them, and the claim at hand is not among the results yet;
- `CommonSpecExists`: while an instance runs, the common spec is there;
- `Kept`: per claim, that an entry of a claim the kubelet wants prepared is as
  good as an answer, since a repeated Prepare will give one without a look
  (`OnDisk`); per handler, what the steps so far have achieved (`Stage`) and that
  the results it has collected are still true (`Answers`);
- `Whole`: with `Reuse`, the same of a claim that is to be unprepared, except while a
  handler is between the removal of its directories and the end of Unprepare. TLC
  refutes `Whole` for each of the three conditions alone: a spec that cannot be
  removed, a checkpoint that cannot be written, a crash.

The step that matters is the one of another call. `Footprint` says what a step
leaves alone: for all claims but the one at hand the directories and the spec
stay, and the entry stays or, on a failed read, goes. `OtherDirectories` is its
part about paths. With mutual exclusion only the handler that steps can disturb
its own `Stage`.

`SideEffectsUndone` (`UndoesSideEffects`): "unprepareDevices undoes any side-effects
produced by [DeviceState.prepareDevices]" is true where no I/O operation fails, no
process crashes and every claim can be prepared (`FailureFree`), with any number of
claims and calls, rolling updates and claims used again. Run `leak` shows that one
failed Prepare is enough to break it. The invariant `Traced`: whoever has a directory
has an entry, or a handler is about to write one; together with `Undone` no write
drops the entry before the directories are gone.

`ClaimLedger_proofs`: `PluginImplementsLedger` (`ImplementsLedger`), under
`Environment`. On top of `SystemInv`: the kubelet's steps are `Demand`, `Release` and
`Forget`; a reply is an `Answer`, because `Answers` holds of the whole batch
(`LedgerReply`); every other step is `Work` or a stutter, because `Footprint` confines
it to a claim that the kubelet wants something of (`StepIsWork`, `LedgerHandle`).

`CheckpointFile_proofs`: `FileNeverTorn` (`NeverTorn`) and
`FileImplementsRegister` (`ImplementsRegister`). The invariant says, besides the
types, that a file open for writing is nobody else's and not among `names`, that
what was encoded is what the caller gave, that it is synced before the rename,
and that a file which `names` can name is complete and synced, so that neither
another writer nor a loss of power changes it under a reader. From it each step is
a step of the register: `Rename` is `TakesEffect`, `Open` is `Reads` (what is read
later is the content at that moment), `Close` and `Read` are the answers
(`ReturnStep`), a loss of power is `LosesPower` (`DeathStep`), and the rest is not
noticed (`Unnoticed`).

`Lifecycle_proofs`: `NodeIsMade` (`CallsFindNode`) and `NoFalseAlarms`
(`NoFalseAlarm`), for any number of instances. The first one's invariant follows the
node through the stages: what is made by which stage, while some process is beyond it
(`NodeInv`); a reboot ends all processes. The second one's (`AlarmInv`):
from the stage on at which probes can come, the services are open or the process was
asked to end; so a service that is not reached means the latter (`UnreachedIsAsked`).
`NothingHoldsShutdown` is the safety half of `EndsByItself` and `EndsIfRepeated`: no probe
comes after `GracefulStop` and no call after `StopHelper`, the lock a Check waits for is
held by a call that runs, and a signal is not caught from `RestoreSignals` on.

`PrepareDevices_proofs`: `StatusChangesOnlyDevices` (`OnlyDevices`) and
`StatusOutpacedOnly` (`OutpacedOnly`), from the invariant that a copy of the latest
version has all of others' writes, and that each conflict has seen at least one
new version since the last one; they are proved of `DeviceStatus!Spec` and carried to
`PrepareSpec`, which implements it (`PrepareUsesStatus`). `DevicesDeterministic`
(`Deterministic`): for a claim that names no device twice, each device is in one
group, so the order of the map does not matter (`OrderIrrelevant`), and the outcome
is a function of the allocation (`OneOutcome`), which nobody changes.

`PrecedenceKept` (`HighestPrecedence`), for every allocation, profile and order of the
maps. `Listed`, of which the model builds the lists of configs, is the increasing
enumeration of a set of positions; it is there for any set of numbers up to a bound
(`Enumerable`) and has as its elements exactly those at the positions, in their order
(`ListedInOrder`). A list is `ByPrecedence` if it has all configs of its sources and
what stands later takes precedence; so are the configs of one source
(`FromByPrecedence`), those of the classes followed by those of the claim
(`JoinedByPrecedence`) and the driver's own ones among them (`ConfigsByPrecedence`).
Hence the last one that applies takes precedence over the others (`ChosenConfig`), and
for a claim that names no device twice the edits are those of the device's only result
(`EditsOfResult`).

Only model-checked: the liveness properties (`UnprepareCompletes`, `PrepareCompletes`,
`EndsByItself`, `EndsIfRepeated`), which are out of the prover's reach, as is
everything with `ENABLED`. Every invariant and every action property of a passing run
is stated by a theorem. `Whole`, `Undone`, `Traced` and `ShutdownIsClear`, which
occur in proofs only, were checked with TLC before.

## What is not modelled

- Opaque configs and device status of the network profile: it has none. The modules
  `DeviceConfigs` and `DeviceStatus` are about the generic code.
- File modes, ownership and SELinux labels: steps that may fail.
- `CreateClaimDirectory` and `DeleteClaimDirectory` of `network.go`, which nobody
  calls; the attributes and capacities of published devices; the order in which devices
  are enumerated.
- Flag parsing, the choice of the profile and the logging set-up, which end the
  process before it has done anything. `NewClientSets` is a step of `Lifecycle`.
- A health server or a helper that stops to serve by itself; overlapping probes of one
  instance.
- Generated conversions, defaults and deep copies of the checkpoint's API version
  (one version, covered by the round-trip test).
- Manifests and the end-to-end tests, which still describe the GPU driver this one was
  derived from.
- The host path. Code and DaemonSet use `/var/run/kubevirt/cdi`, the READMEs of
  `demo` and `deployments/manifests` speak of
  `/var/run/kubevirt/network/{claim-name}-{device-name}`. The model follows the
  code, with one base directory.

## Plan

Done so far: the core (`StableName`, `LauncherClaims`, `DeviceState` and their
theorems), then what lies below it (`CheckpointFile`), above it (`ClaimLedger`) and
around it (`Lifecycle`, `PrepareDevices`). What is left, in order:

1. Which of the conditions in `Environment` can still be weakened. A Prepare that was
   given up is harmless only while no Unprepare of the claim overtakes it, which needs
   a condition on single calls in place of `Timeouts`; and separate directories
   matter only for claims that are on the node at the same time.
2. `DeviceState` on a register that may go back on a loss of power, as
   `CheckpointRegister` allows: which answers survive it.
