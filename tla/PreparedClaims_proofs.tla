----------------------- MODULE PreparedClaims_proofs -----------------------
(***************************************************************************)
(* What the kubelet was told of a claim is what is on the disk, for any    *)
(* number of claims, handlers, instances, failures and crashes, as long as *)
(* calls are not given up, the node is not rebooted, and no two claims     *)
(* share a directory; the runs namespaces and reboot show that the last    *)
(* two are needed.  A claim may be used again while it is unprepared if    *)
(* nothing stops an Unprepare half-way.                                    *)
(***************************************************************************)
EXTENDS DeviceState_proofs

SeparateDirectories ==
    \A c, d \in Claims : c # d =>
        \A j \in 1 .. Len(Results(c)), k \in 1 .. Len(Results(d)) :
            ResultDir(c, j) # ResultDir(d, k)

Environment ==
    /\ OneAtATime
    /\ SeparateDirectories
    /\ ~Timeouts /\ ~Reboots
    /\ Reuse => {"spec", "write"} \cap Faults = {} /\ MaxCrashes = 0

(* What the kubelet wants of a claim for which it makes a call. *)
Pending(op) == IF op = "prepare" THEN "preparing" ELSE "unpreparing"

-----------------------------------------------------------------------------
(* The inductive invariant. *)

(* The handlers that are not idle serve calls the kubelet waits for; each  *)
(* claim is in one of them at most.                                        *)
CallOf(h) ==
    /\ pc[h] = "idle" => call[h] = Idle
    /\ pc[h] # "idle" => /\ call[h].live
                         /\ call[h].op \in {"prepare", "unprepare"}
                         /\ up[InstanceOf[h]]
    /\ \A c \in call[h].claims : view[c] = Pending(call[h].op)
    /\ todo[h] \subseteq call[h].claims
    /\ done[h] \subseteq call[h].claims \ todo[h]
    /\ pc[h] \in Inside => cur[h] \in call[h].claims \ (todo[h] \cup done[h])
    /\ pc[h] \in {"dirs", "spec"} => call[h].op = "prepare"
    /\ pc[h] \in {"rmdirs", "rmspec"} => call[h].op = "unprepare"

Calling ==
    /\ \A h \in Handlers : CallOf(h)
    /\ \A g, h \in Handlers : g # h => call[g].claims \cap call[h].claims = {}

CommonSpecExists == \A i \in Instances : up[i] => CommonSpec \in specs

DirectoriesMade(c) == \A p \in MountedDirs(c) : hostDir[p] \in OwnDevices(c)

Recorded(c) == "read" \in Faults \/ checkpoint[c] > 0

(* The claims on the disk.  An entry of a claim that the kubelet wants to  *)
(* be prepared is as good as an answer: PrepareRestored will give it.      *)
OnDisk(c) ==
    /\ view[c] = "idle" => Gone(c)
    /\ view[c] = "prepared" => Usable(c) /\ Recorded(c)
    /\ view[c] = "preparing" /\ checkpoint[c] > 0 => Usable(c)

(* How far Prepare or Unprepare has come. *)
Stage(h) ==
    LET c == cur[h] IN
    /\ pc[h] \in {"dirs", "spec"} => checkpoint[c] = 0
    /\ pc[h] = "spec" => DirectoriesMade(c)
    /\ pc[h] = "spec" => cp[h][c] > 0
    /\ pc[h] = "save" /\ call[h].op = "prepare" => Usable(c) /\ cp[h][c] > 0
    /\ pc[h] \in {"rmspec", "save"} /\ call[h].op = "unprepare" => cp[h][c] = 0
    /\ pc[h] = "save" /\ call[h].op = "unprepare" => c \notin specs

(* The results that the reply will carry. *)
Answers(h) ==
    \A c \in done[h] :
        /\ call[h].op = "prepare" => Usable(c) /\ Recorded(c)
        /\ call[h].op = "unprepare" => Gone(c)

Kept ==
    /\ \A c \in Claims : OnDisk(c)
    /\ \A h \in Handlers : Stage(h) /\ Answers(h)

(* A claim that may be used again: as long as it has an entry, it is       *)
(* usable, or an Unprepare that will drop the entry has gone too far for   *)
(* it.                                                                     *)
Undoing(h, c) == cur[h] = c /\ pc[h] \in {"rmspec", "save"}

Whole ==
    Reuse => \A c \in Claims :
        view[c] = "unpreparing" /\ checkpoint[c] > 0
            => Usable(c) \/ \E h \in Handlers : Undoing(h, c)

-----------------------------------------------------------------------------
(* Calls in flight. *)

LEMMA NotLive ==
  ASSUME NEW r \in Calls, ~r.live
  PROVE  [r EXCEPT !.live = FALSE] = r
BY DEF Calls

LEMMA CallingKubelet ==
  ASSUME TypeOK, Calling, Environment, Kubelet
  PROVE  Calling'
<1> USE DEF TypeOK, Calling, CallOf, Pending, Inside
<1>1. ASSUME NEW c \in Claims, PodAdded(c) \/ PodRemoved(c) PROVE Calling'
  <2>1. \A h \in Handlers : c \notin call[h].claims
    BY <1>1 DEF PodAdded, PodRemoved, Busy, Idle
  <2>2. /\ \A d \in Claims \ {c} : view'[d] = view[d]
        /\ UNCHANGED <<up, pc, call, todo, done, cur>>
    BY <1>1 DEF PodAdded, PodRemoved, process, handler
  <2> QED BY <2>1, <2>2
<1>2. CASE KubeletRestarts
  <2>1. \A h \in Handlers : call[h] = Idle
    BY <1>2 DEF KubeletRestarts, Environment
  <2>2. \A h \in Handlers : call'[h] = Idle
    <3> SUFFICES ASSUME NEW h \in Handlers PROVE call'[h] = Idle
      OBVIOUS
    <3>1. call'[h] = [call[h] EXCEPT !.live = FALSE]
      BY <1>2 DEF KubeletRestarts
    <3>2. call[h] \in Calls /\ ~call[h].live
      BY <2>1 DEF Idle, Calls
    <3>3. [call[h] EXCEPT !.live = FALSE] = call[h]
      BY <3>2, NotLive
    <3> QED BY <2>1, <3>1, <3>3
  <2>3. UNCHANGED <<up, pc, todo, done, cur>>
    BY <1>2 DEF KubeletRestarts, process
  <2> QED BY <2>1, <2>2, <2>3 DEF Idle
<1>3. ASSUME NEW h \in Handlers, NEW batch \in SUBSET Claims,
             PrepareRequest(h, batch) \/ UnprepareRequest(h, batch)
      PROVE  Calling'
  <2>1. PICK op \in {"prepare", "unprepare"} :
            /\ Request(h, op, batch)
            /\ \A c \in batch : view[c] = Pending(op)
    BY <1>3 DEF PrepareRequest, UnprepareRequest
  <2>2. /\ pc[h] = "idle" /\ pc' = [pc EXCEPT ![h] = "called"]
        /\ call' = [call EXCEPT ![h] = [op |-> op, claims |-> batch, live |-> TRUE]]
        /\ todo' = [todo EXCEPT ![h] = batch]
        /\ UNCHANGED <<up, done, cur, view>>
        /\ up[InstanceOf[h]]
    BY <2>1 DEF Request, Goto, process
  <2>3. \A g \in Handlers : call[g].claims \cap batch = {}
    <3>1. \A g \in Handlers : pc[g] = "idle" => call[g].claims = {}
      BY DEF Idle
    <3>2. \A g \in Handlers : pc[g] # "idle" => call[g].live
      OBVIOUS
    <3> QED BY <2>1, <3>1, <3>2 DEF Request, Busy
  <2>4. done[h] = {}
    BY <2>2 DEF Idle
  <2>5. CallOf(h)'
    BY <2>1, <2>2, <2>4
  <2>6. \A g \in Handlers \ {h} : CallOf(g)'
    BY <2>2
  <2>7. \A f, g \in Handlers : f # g => call'[f].claims \cap call'[g].claims = {}
    BY <2>2, <2>3
  <2> QED BY <2>5, <2>6, <2>7
<1>4. ASSUME NEW h \in Handlers, GiveUp(h) PROVE Calling'
  BY <1>4 DEF GiveUp, Environment
<1> QED BY <1>1, <1>2, <1>3, <1>4 DEF Kubelet

LEMMA CallingDie ==
  ASSUME TypeOK, Calling, NEW dead, Die(dead), UNCHANGED view
  PROVE  Calling'
<1>1. /\ \A h \in Handlers : InstanceOf[h] \in dead =>
             /\ pc'[h] = "idle" /\ call'[h] = Idle /\ todo'[h] = {} /\ done'[h] = {}
      /\ \A h \in Handlers : InstanceOf[h] \notin dead =>
             /\ pc'[h] = pc[h] /\ call'[h] = call[h] /\ todo'[h] = todo[h]
             /\ done'[h] = done[h] /\ cur'[h] = cur[h]
             /\ up'[InstanceOf[h]] = up[InstanceOf[h]]
  BY HandlersAssumption DEF Die, TypeOK
<1>2. \A h \in Handlers : CallOf(h)'
  BY <1>1 DEF Calling, CallOf, Idle, Inside, Pending
<1>3. \A g, h \in Handlers : g # h => call'[g].claims \cap call'[h].claims = {}
  BY <1>1 DEF Calling, Idle
<1> QED BY <1>2, <1>3 DEF Calling

LEMMA CallingProcesses ==
  ASSUME TypeOK, Calling, Environment, Processes
  PROVE  Calling'
<1>1. ASSUME NEW i \in Instances, Start(i) PROVE Calling'
  BY <1>1, HandlersAssumption DEF Start, handler, TypeOK, Calling, CallOf, Pending, Inside
<1>2. ASSUME NEW i \in Instances, Shutdown(i) \/ Crash(i) PROVE Calling'
  BY <1>2, CallingDie DEF Shutdown, Crash
<1>3. ~Reboot
  BY DEF Reboot, Environment
<1> QED BY <1>1, <1>2, <1>3 DEF Processes

(* The steps inside Prepare and Unprepare keep to their own operation. *)
LEMMA OwnOperation ==
  ASSUME NEW h \in Handlers, Handle(h),
         NEW from \in Inside, NEW to \in Inside, Continue(h, from, to), CallOf(h), TypeOK
  PROVE  /\ to \in {"dirs", "spec"} => call[h].op = "prepare"
         /\ to \in {"rmdirs", "rmspec"} => call[h].op = "unprepare"
<1>1. pc[h] = from /\ pc'[h] = to /\ pc'[h] \in Inside
  BY DEF Continue, Goto, TypeOK
<1>2. CASE BeginCall(h) \/ Lock(h) \/ Reply(h)
  BY <1>1, <1>2 DEF BeginCall, Lock, Reply, Goto, Inside, TypeOK
<1>3. CASE Prepare(h)
  BY <1>1, <1>3 DEF Prepare, PrepareRestored, PrepareReadCheckpoint, PrepareReadFails,
                    PrepareDevices, PrepareDevicesFails, CreateClaimSpecFile, PrepareReads,
                    CreateClaimSpecFileFails, Continue, Return, Goto, TypeOK, Inside, CallOf
<1>4. CASE Unprepare(h)
  BY <1>1, <1>4 DEF Unprepare, UnprepareReadCheckpoint, UnprepareReads, UnprepareReadFails,
                    UnprepareReplaceFails, UnprepareDevices, DeleteClaimSpecFile,
                    DeleteClaimSpecFileFails, Continue, Return, Goto, TypeOK, Inside, CallOf,
                    Die
<1>5. CASE WriteCheckpoint(h) \/ WriteCheckpointFails(h)
  BY <1>1, <1>5 DEF WriteCheckpoint, WriteCheckpointFails, Return, Goto, TypeOK, Inside
<1> QED BY <1>2, <1>3, <1>4, <1>5 DEF Handle

LEMMA CallingHandle ==
  ASSUME TypeOK, Calling, NEW h \in Handlers, Handle(h)
  PROVE  Calling'
<1>1. CallOf(h)
  BY DEF Calling
<1>2. CASE BeginCall(h)
  BY <1>2 DEF BeginCall, Goto, TypeOK, Calling, CallOf, Pending, Inside
<1>3. CASE Lock(h)
  <2>1. PICK c \in todo[h] : /\ pc[h] = "serving" /\ pc' = [pc EXCEPT ![h] = "read"]
                            /\ cur' = [cur EXCEPT ![h] = c]
                            /\ todo' = [todo EXCEPT ![h] = @ \ {c}]
                            /\ UNCHANGED <<up, call, done, view>>
    BY <1>3 DEF Lock, Goto
  <2> QED BY <2>1 DEF TypeOK, Calling, CallOf, Pending, Inside
<1>4. CASE Reply(h)
  <2>1. /\ pc[h] = "serving" /\ pc' = [pc EXCEPT ![h] = "idle"]
        /\ call' = [call EXCEPT ![h] = Idle]
        /\ done' = [done EXCEPT ![h] = {}]
        /\ todo[h] = {}
        /\ UNCHANGED <<up, todo, cur>>
    BY <1>4 DEF Reply, Goto
  <2>2. \A c \in Claims : c \notin call[h].claims => view'[c] = view[c]
    BY <1>1, <1>4 DEF Reply, CallOf
  <2>3. CallOf(h)'
    BY <2>1 DEF TypeOK, CallOf, Idle, Inside
  <2>4. ASSUME NEW g \in Handlers \ {h} PROVE CallOf(g)'
    <3>1. \A c \in call[g].claims : view'[c] = view[c]
      BY <2>2 DEF Calling, TypeOK
    <3> QED BY <2>1, <3>1 DEF TypeOK, Calling, CallOf, Pending, Inside
  <2>5. \A f, g \in Handlers : f # g => call'[f].claims \cap call'[g].claims = {}
    BY <2>1 DEF TypeOK, Calling, Idle
  <2> QED BY <2>3, <2>4, <2>5 DEF Calling
<1>5. ASSUME NEW from \in Inside, NEW to \in Inside, Continue(h, from, to) PROVE Calling'
  <2>1. /\ to \in {"dirs", "spec"} => call[h].op = "prepare"
        /\ to \in {"rmdirs", "rmspec"} => call[h].op = "unprepare"
    BY <1>1, <1>5, OwnOperation
  <2>2. /\ pc[h] = from /\ pc' = [pc EXCEPT ![h] = to]
        /\ UNCHANGED <<up, call, todo, done, cur, view>>
    BY <1>5 DEF Continue, Goto, process
  <2>3. CallOf(h)'
    BY <1>1, <2>1, <2>2 DEF TypeOK, CallOf, Pending, Inside
  <2>4. \A g \in Handlers \ {h} : CallOf(g)'
    BY <2>2 DEF TypeOK, Calling, CallOf, Pending, Inside
  <2> QED BY <2>2, <2>3, <2>4 DEF Calling
<1>6. ASSUME NEW from \in Inside, NEW ok \in BOOLEAN, Return(h, from, ok) PROVE Calling'
  <2>1. /\ pc[h] \in Inside /\ pc' = [pc EXCEPT ![h] = "serving"]
        /\ \E c \in {cur[h]} : done'[h] \subseteq done[h] \cup {c}
        /\ \A g \in Handlers \ {h} : done'[g] = done[g] /\ cur'[g] = cur[g]
        /\ UNCHANGED <<up, call, todo, view>>
    BY <1>6 DEF Return, Goto, TypeOK
  <2>2. CallOf(h)'
    BY <1>1, <2>1 DEF TypeOK, CallOf, Pending, Inside
  <2>3. \A g \in Handlers \ {h} : CallOf(g)'
    BY <2>1 DEF TypeOK, Calling, CallOf, Pending, Inside
  <2> QED BY <2>1, <2>2, <2>3 DEF Calling
<1>7. CASE Die({InstanceOf[h]}) /\ UNCHANGED view
  BY <1>7, CallingDie
<1> QED BY <1>2, <1>3, <1>4, <1>5, <1>6, <1>7, HandlerMoves

LEMMA CallingInvariant ==
  ASSUME Environment
  PROVE  Spec => []Calling
<1>1. Init => Calling
  BY DEF Init, Calling, CallOf, Idle, Inside
<1>2. TypeOK /\ Calling /\ [Next]_vars => Calling'
  <2> SUFFICES ASSUME TypeOK, Calling, [Next]_vars PROVE Calling'
    OBVIOUS
  <2>1. CASE UNCHANGED vars
    BY <2>1 DEF vars, process, handler, Calling, CallOf, Pending
  <2> QED BY <2>1, CallingKubelet, CallingProcesses, CallingHandle DEF Next
<1> QED BY <1>1, <1>2, TypeInvariant, PTL DEF Spec

-----------------------------------------------------------------------------
(* Directories of one claim and of another. *)

LEMMA MountedDir ==
  ASSUME NEW c \in Claims, NEW p \in MountedDirs(c)
  PROVE  /\ p \in Paths
         /\ \E k \in OwnResults(c) : p = ResultDir(c, k)
<1>1. PICK k \in OwnResults(c) : p = ResultDir(c, k)
  BY DEF MountedDirs
<1> QED BY <1>1, ResultOfClaim

LEMMA RecordedDir ==
  ASSUME NEW d \in Claims, NEW p \in RecordedDirs(d)
  PROVE  \E k \in 1 .. Len(Results(d)) : p = ResultDir(d, k)
<1>1. PICK device \in Devices(d) : p = ClaimDir(d, DeviceRequests(d)[device])
  BY DEF RecordedDirs
<1> DEFINE T == {k \in 1 .. Len(Results(d)) : Results(d)[k].device = device}
<1>2. T # {} /\ T \subseteq 1 .. Len(Results(d)) /\ Len(Results(d)) \in Nat
  BY ClaimAssumption DEF Devices, Results
<1>3. DeviceRequests(d)[device] = Results(d)[Max(T)].request
  BY DEF DeviceRequests
<1>4. Max(T) \in T
  <2> HIDE DEF T
  <2> QED BY <1>2, MaxOfSet
<1>5. p = ResultDir(d, Max(T))
  <2> HIDE DEF T
  <2> QED BY <1>1, <1>3 DEF ResultDir
<1> QED BY <1>4, <1>5

(* What is made or removed for claim d leaves claim c alone. *)
LEMMA OtherDirectories ==
  ASSUME TypeOK, SeparateDirectories, NEW c \in Claims, NEW d \in Claims, c # d,
         NEW p \in MountedDirs(c)
  PROVE  /\ \A k : createClaimDirectories(d, k)[p] = hostDir[p]
         /\ \A k \in OwnResults(d) : \A dirs \in FailedDirectories(d, k) : dirs[p] = hostDir[p]
         /\ \A removed \in {RecordedDirs(d), {}} :
                /\ deleteClaimDirectories(removed)[p] = hostDir[p]
                /\ \A dirs \in FailedRemovals(removed) : dirs[p] = hostDir[p]
<1>1. p \in Paths
  BY MountedDir
<1>2. \A k \in 1 .. Len(Results(d)) : p # ResultDir(d, k)
  <2>1. PICK j \in OwnResults(c) : p = ResultDir(c, j)
    BY MountedDir
  <2> QED BY <2>1, ResultOfClaim DEF SeparateDirectories
<1>3. \A k \in OwnResults(d) : p # ResultDir(d, k)
  BY <1>2, ResultOfClaim
<1>4. ASSUME NEW k PROVE createClaimDirectories(d, k)[p] = hostDir[p]
  <2>1. {j \in OwnResults(d) : j <= k /\ ResultDir(d, j) = p} = {}
    BY <1>3
  <2> QED BY <1>1, <2>1 DEF createClaimDirectories
<1>5. ASSUME NEW k \in OwnResults(d), NEW dirs \in FailedDirectories(d, k)
      PROVE  dirs[p] = hostDir[p]
  <2>1. PICK left : dirs = [createClaimDirectories(d, k - 1) EXCEPT ![ResultDir(d, k)] = left]
    BY DEF FailedDirectories
  <2>2. createClaimDirectories(d, k - 1) \in [Paths -> Directories]
    BY CreatedDirectories DEF TypeOK, Directories
  <2>3. dirs[p] = createClaimDirectories(d, k - 1)[p]
    BY <1>1, <1>3, <2>1, <2>2
  <2> QED BY <1>4, <2>3
<1>6. ASSUME NEW removed \in {RecordedDirs(d), {}}
      PROVE  /\ deleteClaimDirectories(removed)[p] = hostDir[p]
             /\ \A dirs \in FailedRemovals(removed) : dirs[p] = hostDir[p]
  <2>1. p \notin removed
    BY <1>2, RecordedDir
  <2> QED BY <1>1, <2>1 DEF deleteClaimDirectories, FailedRemovals
<1> QED BY <1>4, <1>5, <1>6

(* createClaimDirectory for every result makes all directories that will   *)
(* be mounted, with a device of the claim in each.                         *)
LEMMA OwnDirectories ==
  ASSUME NEW c \in Claims, NEW p \in MountedDirs(c)
  PROVE  createClaimDirectories(c, Len(Results(c)))[p] \in OwnDevices(c)
<1> DEFINE made == {j \in OwnResults(c) : j <= Len(Results(c)) /\ ResultDir(c, j) = p}
<1>1. p \in Paths
  BY MountedDir
<1>2. Len(Results(c)) \in Nat
  BY ClaimAssumption DEF Results
<1>3. made # {} /\ made \subseteq 1 .. Len(Results(c))
  <2>1. PICK k \in OwnResults(c) : p = ResultDir(c, k)
    BY MountedDir
  <2>2. k <= Len(Results(c))
    BY <1>2, ResultOfClaim
  <2> QED BY <2>1, <2>2, ResultOfClaim
<1>4. Max(made) \in OwnResults(c)
  <2>1. Max(made) \in made
    <3> HIDE DEF made
    <3> QED BY <1>2, <1>3, MaxOfSet
  <2> QED BY <2>1
<1>5. createClaimDirectories(c, Len(Results(c)))[p] = Results(c)[Max(made)].device
  BY <1>1, <1>3 DEF createClaimDirectories
<1> HIDE DEF made
<1> QED BY <1>4, <1>5 DEF OwnDevices

-----------------------------------------------------------------------------
(* What a step does to the claims that it does not work on. *)

Untouched(c) ==
    /\ checkpoint'[c] = checkpoint[c] \/ ("read" \in Faults /\ checkpoint'[c] = 0)
    /\ c \in specs' <=> c \in specs
    /\ CommonSpec \in specs => CommonSpec \in specs'
    /\ \A p \in MountedDirs(c) : hostDir'[p] = hostDir[p]

LEMMA DiskUnchanged ==
  ASSUME UNCHANGED disk
  PROVE  \A c : Untouched(c)
BY DEF Untouched, disk

LEMMA PrepareFootprint ==
  ASSUME TypeOK, SeparateDirectories, NEW h \in Handlers, Prepare(h),
         cur[h] \in Claims, NEW c \in Claims, c # cur[h]
  PROVE  Untouched(c)
<1>1. CASE \/ PrepareRestored(h) \/ PrepareReadCheckpoint(h) \/ PrepareReadFails(h)
           \/ CreateClaimSpecFileFails(h)
  BY <1>1, DiskUnchanged DEF PrepareRestored, PrepareReadCheckpoint, PrepareReadFails,
                             CreateClaimSpecFileFails
<1>2. CASE PrepareDevices(h)
  BY <1>2, OtherDirectories DEF PrepareDevices, Untouched
<1>3. CASE PrepareDevicesFails(h)
  BY <1>3, OtherDirectories DEF PrepareDevicesFails, Untouched
<1>4. CASE CreateClaimSpecFile(h)
  BY <1>4 DEF CreateClaimSpecFile, Untouched
<1> QED BY <1>1, <1>2, <1>3, <1>4 DEF Prepare

LEMMA UnprepareFootprint ==
  ASSUME TypeOK, SeparateDirectories, NEW h \in Handlers, Unprepare(h),
         cur[h] \in Claims, NEW c \in Claims, c # cur[h]
  PROVE  Untouched(c)
<1>1. CASE UnprepareReadCheckpoint(h) \/ DeleteClaimSpecFileFails(h)
  BY <1>1, DiskUnchanged DEF UnprepareReadCheckpoint, DeleteClaimSpecFileFails
<1>2. CASE UnprepareReadFails(h) \/ UnprepareReplaceFails(h)
  BY <1>2 DEF UnprepareReadFails, UnprepareReplaceFails, Fault, EmptyCheckpoint, Untouched
<1>3. CASE UnprepareDevices(h)
  <2> DEFINE removed == IF isRecorded(cp[h], cur[h]) THEN RecordedDirs(cur[h]) ELSE {}
  <2>1. /\ hostDir' = deleteClaimDirectories(removed) \/ hostDir' \in FailedRemovals(removed)
        /\ UNCHANGED <<checkpoint, specs>>
    BY <1>3 DEF UnprepareDevices
  <2>2. removed \in {RecordedDirs(cur[h]), {}}
    OBVIOUS
  <2> HIDE DEF removed
  <2> QED BY <2>1, <2>2, OtherDirectories DEF Untouched
<1>4. CASE DeleteClaimSpecFile(h)
  BY <1>4, ValuesAssumption DEF DeleteClaimSpecFile, Untouched
<1> QED BY <1>1, <1>2, <1>3, <1>4 DEF Unprepare

LEMMA Footprint ==
  ASSUME TypeOK, Working, FreshCopy, SeparateDirectories,
         NEW h \in Handlers, Handle(h), NEW c \in Claims, pc[h] \in Inside => c # cur[h]
  PROVE  Untouched(c)
<1>1. CASE BeginCall(h) \/ Lock(h) \/ Reply(h)
  BY <1>1, DiskUnchanged DEF BeginCall, Lock, Reply
<1>2. CASE Prepare(h)
  <2>1. pc[h] \in Inside
    BY <1>2, PrepareInside
  <2> QED BY <1>2, <2>1, PrepareFootprint DEF Working
<1>3. CASE Unprepare(h)
  <2>1. pc[h] \in Inside
    BY <1>3, UnprepareInside
  <2> QED BY <1>3, <2>1, UnprepareFootprint DEF Working
<1>4. CASE WriteCheckpoint(h) \/ WriteCheckpointFails(h)
  <2>1. /\ pc[h] = "save" /\ checkpoint' \in {checkpoint, cp[h]}
        /\ UNCHANGED <<hostDir, specs>>
    BY <1>4 DEF WriteCheckpoint, WriteCheckpointFails, Return, Goto
  <2> QED BY <2>1 DEF FreshCopy, Inside, Untouched
<1> QED BY <1>1, <1>2, <1>3, <1>4 DEF Handle

(* A claim that is usable, or gone, stays so. *)
LEMMA UntouchedKept ==
  ASSUME NEW c \in Claims, Untouched(c)
  PROVE  /\ Usable(c) => Usable(c)'
         /\ Gone(c) => Gone(c)'
         /\ Recorded(c) => Recorded(c)'
<1>1. Usable(c) => Usable(c)'
  BY DEF Untouched, Usable, GetClaimDevices
<1>2. Gone(c) => Gone(c)'
  BY DEF Untouched, Gone
<1>3. Recorded(c) => Recorded(c)'
  BY DEF Untouched, Recorded
<1> QED BY <1>1, <1>2, <1>3

-----------------------------------------------------------------------------
(* The claim at hand. *)

SystemInv ==
    TypeOK /\ Working /\ Locks /\ FreshCopy /\ Calling /\ CommonSpecExists /\ Kept /\ Whole

LEMMA AtHand ==
  ASSUME SystemInv, NEW h \in Handlers, pc[h] \in Inside
  PROVE  /\ cur[h] \in Claims
         /\ view[cur[h]] = Pending(call[h].op)
         /\ call[h].op \in {"prepare", "unprepare"}
         /\ CommonSpec \in specs
         /\ OnDisk(cur[h]) /\ Stage(h)
<1>1. CallOf(h) /\ pc[h] # "idle"
  BY DEF SystemInv, Calling, Inside
<1>2. up[InstanceOf[h]] /\ InstanceOf[h] \in Instances
  BY <1>1, HandlersAssumption DEF CallOf
<1>3. cur[h] \in Claims
  BY DEF SystemInv, Working
<1> QED BY <1>1, <1>2, <1>3 DEF SystemInv, CallOf, CommonSpecExists, Kept

(* An entry that appears while the claim is being prepared is backed by    *)
(* directories and a spec.                                                 *)
LEMMA EntryBacked ==
  ASSUME SystemInv, NEW h \in Handlers, Handle(h), pc[h] \in Inside,
         NEW c \in Claims, c = cur[h], view[c] = "preparing", checkpoint'[c] > 0
  PROVE  Usable(c)'
<1>1. /\ OnDisk(c) /\ Stage(h)
      /\ call[h].op = "prepare"
  BY AtHand DEF Pending
<1>2. UNCHANGED <<checkpoint, hostDir, specs>> => Usable(c)'
  <2> SUFFICES ASSUME UNCHANGED <<checkpoint, hostDir, specs>> PROVE Usable(c)'
    OBVIOUS
  <2>1. Usable(c)
    BY <1>1 DEF OnDisk
  <2> QED BY <1>1, <2>1, UntouchedKept DEF Untouched
<1>3. CASE BeginCall(h) \/ Lock(h) \/ Reply(h)
  BY <1>3, <1>2 DEF BeginCall, Lock, Reply, disk
<1>4. CASE Prepare(h)
  <2>1. checkpoint' = checkpoint
    BY <1>4 DEF Prepare, PrepareRestored, PrepareReadCheckpoint, PrepareReadFails,
                PrepareDevices, PrepareDevicesFails, CreateClaimSpecFile,
                CreateClaimSpecFileFails, disk
  <2>2. CASE \/ PrepareRestored(h) \/ PrepareReadCheckpoint(h) \/ PrepareReadFails(h)
             \/ CreateClaimSpecFileFails(h)
    BY <1>2, <2>2 DEF PrepareRestored, PrepareReadCheckpoint, PrepareReadFails,
                      CreateClaimSpecFileFails, disk
  <2>3. CASE PrepareDevices(h) \/ PrepareDevicesFails(h) \/ CreateClaimSpecFile(h)
    <3>1. pc[h] \in {"dirs", "spec"}
      BY <2>3 DEF PrepareDevices, PrepareDevicesFails, CreateClaimSpecFile
    <3> QED BY <1>1, <2>1, <3>1 DEF Stage
  <2> QED BY <1>4, <2>2, <2>3 DEF Prepare
<1>5. CASE Unprepare(h)
  <2>1. pc[h] \in {"rmdirs", "rmspec"} \/ call[h].op = "unprepare"
    BY <1>5 DEF Unprepare, UnprepareReadCheckpoint, UnprepareReadFails, UnprepareReplaceFails,
                UnprepareReads, UnprepareDevices, DeleteClaimSpecFile,
                DeleteClaimSpecFileFails, Continue, Return, Goto
  <2> QED BY <1>1, <2>1 DEF SystemInv, Calling, CallOf
<1>6. CASE WriteCheckpoint(h) \/ WriteCheckpointFails(h)
  <2>1. pc[h] = "save" /\ UNCHANGED <<hostDir, specs>>
    BY <1>6 DEF WriteCheckpoint, WriteCheckpointFails, Return, Goto
  <2>2. Usable(c)
    BY <1>1, <2>1 DEF Stage
  <2> QED BY <2>1, <2>2 DEF Usable
<1> QED BY <1>3, <1>4, <1>5, <1>6 DEF Handle

LEMMA OnDiskHandle ==
  ASSUME SystemInv, SeparateDirectories, NEW h \in Handlers, Handle(h), NEW c \in Claims
  PROVE  OnDisk(c)'
<1>1. OnDisk(c) /\ CallOf(h) /\ Answers(h)
  BY DEF SystemInv, Kept, Calling
<1>2. CASE Reply(h)
  <2>1. Untouched(c)
    BY <1>2, DiskUnchanged DEF Reply
  <2>2. CASE c \in done[h]
    <3>1. c \in call[h].claims /\ call[h].live /\ call[h].op \in {"prepare", "unprepare"}
      BY <1>1, <1>2, <2>2 DEF CallOf, Reply, Goto
    <3>2. view'[c] = Outcome(call[h].op)
      BY <1>2, <2>2, <3>1 DEF Reply
    <3>3. /\ call[h].op = "prepare" => Usable(c) /\ Recorded(c)
          /\ call[h].op = "unprepare" => Gone(c)
      BY <1>1, <2>2 DEF Answers
    <3> QED BY <2>1, <3>1, <3>2, <3>3, UntouchedKept DEF OnDisk, Outcome
  <2>3. CASE c \notin done[h]
    <3>1. view'[c] = view[c]
      BY <1>2, <2>3 DEF Reply
    <3> QED BY <1>1, <2>1, <3>1, UntouchedKept DEF OnDisk, Untouched
  <2> QED BY <2>2, <2>3
<1>3. ASSUME ~Reply(h) PROVE view' = view
  BY <1>3, HandlerMoves DEF BeginCall, Lock, Continue, Return
<1>4. CASE ~Reply(h) /\ pc[h] \in Inside /\ c = cur[h]
  <2>1. view[c] \in {"preparing", "unpreparing"}
    BY <1>4, AtHand DEF Pending
  <2>2. view[c] = "preparing" /\ checkpoint'[c] > 0 => Usable(c)'
    BY <1>4, EntryBacked
  <2> QED BY <1>3, <1>4, <2>1, <2>2 DEF OnDisk
<1>5. CASE ~Reply(h) /\ (pc[h] \in Inside => c # cur[h])
  <2>1. Untouched(c)
    BY <1>5, Footprint DEF SystemInv
  <2> QED BY <1>1, <1>3, <1>5, <2>1, UntouchedKept DEF OnDisk, Untouched
<1> QED BY <1>2, <1>4, <1>5

(* Stage of the handler that takes the step. *)
LEMMA StageOwn ==
  ASSUME SystemInv, NEW h \in Handlers, Handle(h)
  PROVE  Stage(h)'
<1>0. pc \in [Handlers -> {"idle", "called", "serving", "read", "dirs", "spec",
                           "rmdirs", "rmspec", "save"}]
      /\ cp \in [Handlers -> [Claims -> Nat]]
      /\ checkpoint \in [Claims -> Nat]
  BY DEF SystemInv, TypeOK
<1>1. pc'[h] \in {"idle", "called", "serving", "read", "rmdirs"} => Stage(h)'
  BY DEF Stage
<1>2. CASE BeginCall(h) \/ Lock(h) \/ Reply(h)
  BY <1>0, <1>1, <1>2 DEF BeginCall, Lock, Reply, Goto
<1>3. ASSUME NEW from, NEW ok, Return(h, from, ok) PROVE Stage(h)'
  BY <1>0, <1>1, <1>3 DEF Return, Goto
<1>4. CASE Prepare(h)
  <2>1. pc[h] \in Inside
    BY <1>4, PrepareInside
  <2>2. cur[h] \in Claims /\ CommonSpec \in specs /\ Stage(h)
    BY <2>1, AtHand
  <2>3. CASE PrepareReadCheckpoint(h)
    <3>1. /\ pc'[h] = "dirs" /\ cur' = cur /\ UNCHANGED disk
          /\ checkpoint[cur[h]] = 0
      BY <1>0, <2>2, <2>3 DEF PrepareReadCheckpoint, Continue, Goto, isRecorded
    <3> QED BY <3>1 DEF Stage, disk
  <2>4. CASE PrepareDevices(h)
    <3>1. CASE Return(h, "dirs", FALSE)
      BY <1>3, <3>1
    <3>2. CASE Continue(h, "dirs", "spec") /\ cp' = [cp EXCEPT ![h] = addClaimToCheckpoint(@, cur[h])]
      <4>1. /\ pc[h] = "dirs" /\ pc'[h] = "spec" /\ cur' = cur
            /\ hostDir' = createClaimDirectories(cur[h], Len(Results(cur[h])))
            /\ checkpoint' = checkpoint
        BY <1>0, <2>4, <3>2 DEF PrepareDevices, Continue, Goto
      <4>2. checkpoint'[cur'[h]] = 0
        BY <2>2, <4>1 DEF Stage
      <4>3. DirectoriesMade(cur[h])'
        BY <2>2, <4>1, OwnDirectories DEF DirectoriesMade
      <4>4. cp'[h][cur'[h]] > 0
        BY <1>0, <2>2, <3>2, <4>1 DEF addClaimToCheckpoint
      <4> QED BY <4>1, <4>2, <4>3, <4>4 DEF Stage
    <3> QED BY <2>4, <3>1, <3>2 DEF PrepareDevices
  <2>5. CASE CreateClaimSpecFile(h)
    <3>1. /\ pc[h] = "spec" /\ pc'[h] = "save" /\ cur' = cur /\ cp' = cp /\ call' = call
          /\ specs' = specs \cup {cur[h]}
          /\ UNCHANGED <<checkpoint, hostDir>>
      BY <1>0, <2>5 DEF CreateClaimSpecFile, Continue, Goto
    <3>2. DirectoriesMade(cur[h]) /\ cp[h][cur[h]] > 0
      BY <2>2, <3>1 DEF Stage
    <3>3. call[h].op # "unprepare"
      BY <3>1 DEF SystemInv, Calling, CallOf
    <3>4. Usable(cur[h])'
      BY <2>2, <3>1, <3>2 DEF Usable, DirectoriesMade, GetClaimDevices
    <3> QED BY <3>1, <3>2, <3>3, <3>4 DEF Stage
  <2>6. CASE PrepareRestored(h) \/ PrepareReadFails(h) \/ PrepareDevicesFails(h)
             \/ CreateClaimSpecFileFails(h)
    <3>1. pc'[h] = "serving"
      BY <1>0, <2>6 DEF PrepareRestored, PrepareReadFails, PrepareDevicesFails,
                        CreateClaimSpecFileFails, Return, Goto
    <3> QED BY <1>1, <3>1
  <2> QED BY <1>4, <2>3, <2>4, <2>5, <2>6 DEF Prepare
<1>5. CASE Unprepare(h)
  <2>1. pc[h] \in Inside
    BY <1>5, UnprepareInside
  <2>2. cur[h] \in Claims /\ Stage(h)
    BY <2>1, AtHand
  <2>3. CASE UnprepareReadCheckpoint(h)
    BY <1>0, <1>1, <2>3 DEF UnprepareReadCheckpoint, Continue, Goto
  <2>4. CASE UnprepareReadFails(h)
    BY <1>1, <2>4 DEF UnprepareReadFails, Die
  <2>5. CASE UnprepareReplaceFails(h) \/ DeleteClaimSpecFileFails(h)
    BY <1>0, <1>1, <2>5 DEF UnprepareReplaceFails, DeleteClaimSpecFileFails, Return, Goto
  <2>6. CASE UnprepareDevices(h)
    <3>1. /\ pc'[h] = "rmspec" /\ cur' = cur
          /\ cp' = [cp EXCEPT ![h] = removeClaimFromCheckpoint(@, cur[h])]
      BY <1>0, <2>6 DEF UnprepareDevices, Continue, Goto
    <3>2. cp'[h][cur'[h]] = 0
      BY <1>0, <2>2, <3>1 DEF removeClaimFromCheckpoint
    <3> QED BY <3>1, <3>2 DEF Stage
  <2>7. CASE DeleteClaimSpecFile(h)
    <3>1. /\ pc[h] = "rmspec" /\ pc'[h] = "save" /\ cur' = cur /\ cp' = cp /\ call' = call
          /\ specs' = specs \ {cur[h]}
      BY <1>0, <2>7 DEF DeleteClaimSpecFile, Continue, Goto
    <3>2. call[h].op = "unprepare"
      BY <3>1 DEF SystemInv, Calling, CallOf
    <3>3. cp[h][cur[h]] = 0
      BY <2>2, <3>1, <3>2 DEF Stage
    <3> QED BY <3>1, <3>2, <3>3 DEF Stage
  <2> QED BY <1>5, <2>3, <2>4, <2>5, <2>6, <2>7 DEF Unprepare
<1>6. CASE WriteCheckpoint(h) \/ WriteCheckpointFails(h)
  <2>1. pc'[h] = "serving"
    BY <1>0, <1>6 DEF WriteCheckpoint, WriteCheckpointFails, Return, Goto
  <2> QED BY <1>1, <2>1
<1> QED BY <1>2, <1>4, <1>5, <1>6 DEF Handle

(* Another handler is not inside while this one is, so nothing happens to  *)
(* the disk while it waits.                                                *)
LEMMA StageOther ==
  ASSUME SystemInv, OneAtATime, NEW h \in Handlers, Handle(h), NEW g \in Handlers, g # h
  PROVE  Stage(g)'
<1>1. Stage(g)
  BY DEF SystemInv, Kept
<1>2. CASE pc[h] \notin Inside
  <2>1. BeginCall(h) \/ Lock(h) \/ Reply(h)
    <3>1. ~Prepare(h) /\ ~Unprepare(h)
      BY <1>2, PrepareInside, UnprepareInside
    <3>2. ~WriteCheckpoint(h) /\ ~WriteCheckpointFails(h)
      BY <1>2 DEF WriteCheckpoint, WriteCheckpointFails, Return, Goto, Inside
    <3> QED BY <3>1, <3>2 DEF Handle
  <2>2. /\ pc'[g] = pc[g] /\ cur'[g] = cur[g] /\ call'[g] = call[g] /\ cp' = cp
        /\ UNCHANGED disk
    BY <2>1 DEF BeginCall, Lock, Reply, Goto, SystemInv, TypeOK
  <2> QED BY <1>1, <2>2 DEF Stage, DirectoriesMade, Usable, disk
<1>3. CASE pc[h] \in Inside
  <2>1. pc[g] \notin Inside
    BY <1>3, MutualExclusion DEF SystemInv
  <2>2. pc'[g] \in {pc[g], "idle"}
    <3>1. ASSUME NEW from, NEW to, Goto(h, from, to) PROVE pc'[g] = pc[g]
      BY <3>1 DEF Goto, SystemInv, TypeOK
    <3>2. CASE BeginCall(h) \/ Lock(h) \/ Reply(h)
      BY <3>1, <3>2 DEF BeginCall, Lock, Reply
    <3>3. ASSUME NEW from, NEW to, Continue(h, from, to) PROVE pc'[g] = pc[g]
      BY <3>1, <3>3 DEF Continue
    <3>4. ASSUME NEW from, NEW ok, Return(h, from, ok) PROVE pc'[g] = pc[g]
      BY <3>1, <3>4 DEF Return
    <3>5. CASE Die({InstanceOf[h]})
      BY <3>5 DEF Die
    <3> QED BY <3>2, <3>3, <3>4, <3>5, HandlerMoves
  <2> QED BY <2>1, <2>2 DEF Stage, Inside
<1> QED BY <1>2, <1>3

-----------------------------------------------------------------------------
(* The results of a call, until the reply. *)

(* A result that is added is true. *)
LEMMA NewAnswer ==
  ASSUME SystemInv, NEW h \in Handlers, Handle(h), NEW c \in done'[h], c \notin done[h]
  PROVE  /\ c \in Claims /\ call'[h] = call[h]
         /\ call[h].op = "prepare" => Usable(c)' /\ Recorded(c)'
         /\ call[h].op = "unprepare" => Gone(c)'
<1> DEFINE Conclusion == /\ c \in Claims /\ call'[h] = call[h]
                         /\ call[h].op = "prepare" => Usable(c)' /\ Recorded(c)'
                         /\ call[h].op = "unprepare" => Gone(c)'
<1>1. done \in [Handlers -> SUBSET Claims]
  BY DEF SystemInv, TypeOK
<1>2. ~BeginCall(h) /\ ~Lock(h) /\ ~Reply(h)
  BY <1>1 DEF BeginCall, Lock, Reply
<1>3. ASSUME NEW from, NEW to, Continue(h, from, to) PROVE FALSE
  BY <1>3 DEF Continue
<1>4. ASSUME NEW from, Return(h, from, FALSE) PROVE FALSE
  BY <1>1, <1>4 DEF Return
<1>5. CASE PrepareRestored(h)
  <2>1. /\ pc[h] \in Inside /\ c = cur[h] /\ UNCHANGED disk /\ call' = call
        /\ call[h].op = "prepare" /\ checkpoint[c] > 0
    BY <1>1, <1>5 DEF PrepareRestored, PrepareReads, Return, Goto, isRecorded, Inside
  <2>2. c \in Claims /\ view[c] = "preparing" /\ OnDisk(c)
    BY <2>1, AtHand DEF Pending
  <2>3. Usable(c) /\ Recorded(c)
    BY <2>1, <2>2 DEF OnDisk, Recorded
  <2> QED BY <2>1, <2>2, <2>3, DiskUnchanged, UntouchedKept
<1>6. CASE WriteCheckpoint(h)
  <2>1. /\ pc[h] = "save" /\ c = cur[h] /\ checkpoint' = cp[h] /\ call' = call
        /\ UNCHANGED <<hostDir, specs>>
    BY <1>1, <1>6 DEF WriteCheckpoint, Return, Goto
  <2>2. c \in Claims /\ Stage(h)
    BY <2>1, AtHand DEF Inside
  <2> QED BY <2>1, <2>2 DEF Stage, Usable, Recorded, Gone
<1>7. CASE Prepare(h)
  BY <1>3, <1>4, <1>5, <1>7 DEF Prepare, PrepareReadCheckpoint, PrepareReadFails,
      PrepareDevices, PrepareDevicesFails, CreateClaimSpecFile, CreateClaimSpecFileFails
<1>8. CASE Unprepare(h)
  <2>1. ~UnprepareReadFails(h)
    BY <1>1 DEF UnprepareReadFails, Die
  <2> QED BY <1>3, <1>4, <1>8, <2>1 DEF Unprepare, UnprepareReadCheckpoint,
      UnprepareReplaceFails, UnprepareDevices, DeleteClaimSpecFile, DeleteClaimSpecFileFails
<1>9. CASE WriteCheckpointFails(h)
  BY <1>4, <1>9 DEF WriteCheckpointFails
<1> QED BY <1>2, <1>6, <1>7, <1>8, <1>9 DEF Handle

LEMMA AnswersHandle ==
  ASSUME SystemInv, SeparateDirectories, NEW h \in Handlers, Handle(h), NEW g \in Handlers
  PROVE  Answers(g)'
<1> SUFFICES ASSUME NEW c \in done'[g]
             PROVE  /\ call'[g].op = "prepare" => Usable(c)' /\ Recorded(c)'
                    /\ call'[g].op = "unprepare" => Gone(c)'
  BY DEF Answers
<1>1. done'[g] # {} => call'[g] = call[g] /\ (g # h => done'[g] = done[g])
  BY HandlerMoves DEF BeginCall, Lock, Reply, Continue, Return, Die, process, SystemInv, TypeOK
<1>2. CASE c \notin done[g]
  BY <1>1, <1>2, NewAnswer
<1>3. CASE c \in done[g]
  <2>1. c \in call[g].claims \ (todo[g]) /\ c \in Claims
    BY <1>3 DEF SystemInv, Calling, CallOf, TypeOK
  <2>2. pc[h] \in Inside => c # cur[h]
    BY <1>3, <2>1 DEF SystemInv, Calling, CallOf
  <2>3. Untouched(c)
    BY <2>1, <2>2, Footprint DEF SystemInv
  <2>4. /\ call[g].op = "prepare" => Usable(c) /\ Recorded(c)
        /\ call[g].op = "unprepare" => Gone(c)
    BY <1>3 DEF SystemInv, Kept, Answers
  <2> QED BY <1>1, <2>1, <2>3, <2>4, UntouchedKept
<1> QED BY <1>2, <1>3

-----------------------------------------------------------------------------
(* The steps of the kubelet and of processes. *)

LEMMA KeptKubelet ==
  ASSUME SystemInv, Environment, Kubelet
  PROVE  Kept'
<1>1. UNCHANGED <<disk, done, cur, cp>>
  BY DEF Kubelet, PodAdded, PodRemoved, KubeletRestarts, PrepareRequest, UnprepareRequest,
         Request, GiveUp, handler
<1>2. ASSUME NEW c \in Claims PROVE OnDisk(c)'
  <2>1. view \in [Claims -> {"idle", "preparing", "prepared", "unpreparing"}]
    BY DEF SystemInv, TypeOK
  <2>2. \/ view'[c] = view[c]
        \/ view'[c] = "unpreparing"
        \/ view[c] \in {"idle", "prepared"} /\ view'[c] = "preparing"
        \/ view[c] = "unpreparing" /\ view'[c] = "preparing" /\ Reuse /\ ~Busy(c)
    BY <2>1 DEF Kubelet, PodAdded, PodRemoved, KubeletRestarts, Forgotten,
                PrepareRequest, UnprepareRequest, Request, GiveUp
  <2>3. OnDisk(c) /\ UNCHANGED <<checkpoint, hostDir, specs>>
    BY <1>1 DEF SystemInv, Kept, disk
  <2>4. /\ Usable(c) => Usable(c)'
        /\ Gone(c) => Gone(c)' /\ checkpoint[c] = 0
        /\ Recorded(c) => Recorded(c)'
    BY <1>1, DiskUnchanged, UntouchedKept DEF Gone
  <2>5. CASE view[c] = "unpreparing" /\ view'[c] = "preparing" /\ Reuse /\ ~Busy(c)
    <3>1. ~ \E h \in Handlers : Undoing(h, c)
      BY <2>5 DEF Busy, Undoing, Inside, SystemInv, Calling, CallOf
    <3>2. checkpoint[c] > 0 => Usable(c)
      BY <2>5, <3>1 DEF SystemInv, Whole
    <3> QED BY <2>3, <2>4, <2>5, <3>2 DEF OnDisk
  <2> QED BY <2>2, <2>3, <2>4, <2>5 DEF OnDisk
<1>3. ASSUME NEW h \in Handlers PROVE Stage(h)' /\ Answers(h)'
  <2>1. Stage(h) /\ Answers(h) /\ CallOf(h)
    BY DEF SystemInv, Kept, Calling
  <2>2. \/ pc'[h] = pc[h] /\ call'[h].op = call[h].op
        \/ pc'[h] = "called" /\ done[h] = {}
    <3> USE DEF SystemInv, TypeOK
    <3>1. CASE \E c \in Claims : PodAdded(c) \/ PodRemoved(c)
      BY <3>1 DEF PodAdded, PodRemoved, handler
    <3>2. CASE KubeletRestarts
      <4>1. call[h] \in Calls
        BY DEF Calls
      <4>2. [call[h] EXCEPT !.live = FALSE].op = call[h].op
        BY <4>1 DEF Calls
      <4> QED BY <3>2, <4>2 DEF KubeletRestarts
    <3>3. ASSUME NEW g \in Handlers, NEW op, NEW batch, Request(g, op, batch)
          PROVE  \/ pc'[h] = pc[h] /\ call'[h].op = call[h].op
                 \/ pc'[h] = "called" /\ done[h] = {}
      <4>1. CASE g = h
        BY <2>1, <3>3, <4>1 DEF Request, Goto, CallOf, Idle
      <4>2. CASE g # h
        BY <3>3, <4>2 DEF Request, Goto
      <4> QED BY <4>1, <4>2
    <3>4. CASE \E g \in Handlers : GiveUp(g)
      BY <3>4 DEF GiveUp, Environment
    <3> QED BY <3>1, <3>2, <3>3, <3>4 DEF Kubelet, PrepareRequest, UnprepareRequest
  <2>3. UNCHANGED <<checkpoint, hostDir, specs, done, cur, cp>>
    BY <1>1 DEF disk
  <2>4. CASE pc'[h] = pc[h] /\ call'[h].op = call[h].op
    BY <2>1, <2>3, <2>4 DEF Stage, Answers, DirectoriesMade, Usable, Recorded, Gone
  <2>5. CASE pc'[h] = "called" /\ done[h] = {}
    BY <2>3, <2>5 DEF Stage, Answers
  <2> QED BY <2>2, <2>4, <2>5
<1> QED BY <1>2, <1>3 DEF Kept

(* A step that at most writes the common spec and resets handlers. *)
LEMMA KeptReset ==
  ASSUME SystemInv, UNCHANGED <<checkpoint, hostDir, view>>,
         specs' \in {specs, specs \cup {CommonSpec}},
         \A h \in Handlers :
             \/ /\ pc'[h] = pc[h] /\ call'[h] = call[h] /\ done'[h] = done[h]
                /\ cur'[h] = cur[h] /\ cp'[h] = cp[h]
             \/ pc'[h] = "idle" /\ done'[h] = {}
  PROVE  Kept'
<1>1. ASSUME NEW c \in Claims PROVE Untouched(c)
  BY ValuesAssumption DEF Untouched
<1>2. ASSUME NEW c \in Claims PROVE OnDisk(c)'
  <2>1. OnDisk(c)
    BY DEF SystemInv, Kept
  <2> QED BY <1>1, <2>1, UntouchedKept DEF OnDisk
<1>3. ASSUME NEW h \in Handlers PROVE Stage(h)' /\ Answers(h)'
  <2>1. Stage(h) /\ Answers(h) /\ done[h] \subseteq Claims
    BY DEF SystemInv, Kept, TypeOK
  <2>2. CASE pc'[h] = "idle" /\ done'[h] = {}
    BY <2>2 DEF Stage, Answers
  <2>3. CASE /\ pc'[h] = pc[h] /\ call'[h] = call[h] /\ done'[h] = done[h]
             /\ cur'[h] = cur[h] /\ cp'[h] = cp[h]
    <3>1. Answers(h)'
      BY <1>1, <2>1, <2>3, UntouchedKept DEF Answers
    <3>2. CASE pc[h] \notin Inside
      BY <2>3, <3>1, <3>2 DEF Stage, Inside
    <3>3. CASE pc[h] \in Inside
      <4>1. cur[h] \in Claims
        BY <3>3 DEF SystemInv, Working
      <4>2. Usable(cur[h]) => Usable(cur[h])'
        BY <2>3, <4>1 DEF Usable, GetClaimDevices
      <4>3. cur[h] \notin specs => cur[h] \notin specs'
        BY <4>1, ValuesAssumption
      <4>4. Stage(h)'
        BY <2>1, <2>3, <4>2, <4>3 DEF Stage, DirectoriesMade, Usable
      <4> QED BY <3>1, <4>4
    <3> QED BY <3>2, <3>3
  <2> QED BY <2>2, <2>3
<1> QED BY <1>2, <1>3 DEF Kept

LEMMA KeptProcesses ==
  ASSUME SystemInv, Environment, Processes
  PROVE  Kept'
<1>1. ASSUME NEW i \in Instances, Start(i) PROVE Kept'
  BY <1>1, KeptReset DEF Start, CreateCommonSpecFile, handler
<1>2. ASSUME NEW i \in Instances, Shutdown(i) \/ Crash(i) PROVE Kept'
  BY <1>2, KeptReset DEF Shutdown, Crash, Die, disk, SystemInv, TypeOK
<1>3. ~Reboot
  BY DEF Reboot, Environment
<1> QED BY <1>1, <1>2, <1>3 DEF Processes

LEMMA CommonSpecStep ==
  ASSUME TypeOK, Working, CommonSpecExists, ~Reboots, [Next]_vars
  PROVE  CommonSpecExists'
<1> USE DEF TypeOK, CommonSpecExists
<1>1. ASSUME up' = up \/ (\E dead : Die(dead)), CommonSpec \in specs => CommonSpec \in specs'
      PROVE  CommonSpecExists'
  BY <1>1 DEF Die
<1>2. CASE Kubelet
  <2>1. UNCHANGED <<up, specs>>
    BY <1>2 DEF Kubelet, PodAdded, PodRemoved, KubeletRestarts, PrepareRequest,
                UnprepareRequest, Request, GiveUp, process, disk
  <2> QED BY <1>1, <2>1
<1>3. CASE Processes
  <2>1. ASSUME NEW i \in Instances, Start(i) PROVE CommonSpecExists'
    BY <2>1 DEF Start, CreateCommonSpecFile
  <2>2. ASSUME NEW i \in Instances, Shutdown(i) \/ Crash(i) PROVE CommonSpecExists'
    BY <1>1, <2>2 DEF Shutdown, Crash, disk
  <2> QED BY <1>3, <2>1, <2>2 DEF Processes, Reboot
<1>4. ASSUME NEW h \in Handlers, Handle(h) PROVE CommonSpecExists'
  <2>1. up' = up \/ (\E dead : Die(dead))
    BY <1>4, HandlerMoves DEF BeginCall, Lock, Reply, Continue, Return, process
  <2>2. CASE DeleteClaimSpecFile(h)
    <3>1. specs' = specs \ {cur[h]} /\ cur[h] \in Claims
      BY <2>2 DEF DeleteClaimSpecFile, Continue, Goto, Working, Inside
    <3> QED BY <1>1, <2>1, <3>1, ValuesAssumption
  <2>3. CASE ~DeleteClaimSpecFile(h)
    <3>1. specs \subseteq specs'
      BY <1>4, <2>3 DEF Handle, BeginCall, Lock, Reply, Prepare, PrepareRestored,
          PrepareReadCheckpoint, PrepareReadFails, PrepareDevices, PrepareDevicesFails,
          CreateClaimSpecFile, CreateClaimSpecFileFails, Unprepare, UnprepareReadCheckpoint,
          UnprepareReadFails, UnprepareReplaceFails, UnprepareDevices,
          DeleteClaimSpecFileFails, WriteCheckpoint, WriteCheckpointFails, disk
    <3> QED BY <1>1, <2>1, <3>1
  <2> QED BY <2>2, <2>3
<1>5. CASE UNCHANGED vars
  BY <1>5 DEF vars, process, disk
<1> QED BY <1>2, <1>3, <1>4, <1>5 DEF Next

-----------------------------------------------------------------------------
(* Claims that are used again. *)

LEMMA WholeKubelet ==
  ASSUME SystemInv, Environment, Kubelet
  PROVE  Whole'
<1> SUFFICES ASSUME Reuse, NEW c \in Claims, view'[c] = "unpreparing", checkpoint'[c] > 0
             PROVE  Usable(c)' \/ \E h \in Handlers : Undoing(h, c)'
  BY DEF Whole
<1>1. UNCHANGED <<disk, cur>>
  BY DEF Kubelet, PodAdded, PodRemoved, KubeletRestarts, PrepareRequest, UnprepareRequest,
         Request, GiveUp, handler
<1>2. Usable(c) => Usable(c)'
  BY <1>1, DiskUnchanged, UntouchedKept
<1>3. checkpoint[c] > 0
  BY <1>1 DEF disk
<1>4. CASE view[c] = "unpreparing"
  <2>1. ASSUME NEW h \in Handlers, Undoing(h, c) PROVE Undoing(h, c)'
    <3>1. pc'[h] = pc[h]
      BY <2>1 DEF Undoing, Kubelet, PodAdded, PodRemoved, KubeletRestarts, PrepareRequest,
                  UnprepareRequest, Request, Goto, GiveUp, handler, SystemInv, TypeOK
    <3> QED BY <1>1, <2>1, <3>1 DEF Undoing
  <2> QED BY <1>2, <1>3, <1>4, <2>1 DEF SystemInv, Whole
<1>5. CASE view[c] # "unpreparing"
  <2>1. view[c] \in {"preparing", "prepared"}
    BY <1>5 DEF Kubelet, PodAdded, PodRemoved, KubeletRestarts, Forgotten, PrepareRequest,
                UnprepareRequest, Request, GiveUp, SystemInv, TypeOK
  <2> QED BY <1>2, <1>3, <2>1 DEF SystemInv, Kept, OnDisk
<1> QED BY <1>4, <1>5

LEMMA WholeProcesses ==
  ASSUME SystemInv, Environment, Processes \/ UNCHANGED vars
  PROVE  Whole'
<1> SUFFICES ASSUME Reuse, NEW c \in Claims, view'[c] = "unpreparing", checkpoint'[c] > 0
             PROVE  Usable(c)' \/ \E h \in Handlers : Undoing(h, c)'
  BY DEF Whole
<1>1. ~Reboot /\ \A i \in Instances : ~Crash(i)
  BY DEF Reboot, Crash, Environment, SystemInv, TypeOK
<1>2. /\ UNCHANGED <<checkpoint, hostDir, view>>
      /\ specs' \in {specs, specs \cup {CommonSpec}}
      /\ \A h \in Handlers : Undoing(h, c) => Undoing(h, c)'
  <2>1. ASSUME NEW i \in Instances, Start(i) PROVE <1>2!1 /\ <1>2!2 /\ <1>2!3
    BY <2>1 DEF Start, CreateCommonSpecFile, handler, Undoing
  <2>2. ASSUME NEW i \in Instances, Shutdown(i) PROVE <1>2!1 /\ <1>2!2 /\ <1>2!3
    BY <2>2 DEF Shutdown, Die, disk, Undoing
  <2>3. CASE UNCHANGED vars
    BY <2>3 DEF vars, disk, handler, Undoing
  <2> QED BY <1>1, <2>1, <2>2, <2>3 DEF Processes
<1>3. Usable(c) => Usable(c)'
  BY <1>2, ValuesAssumption DEF Usable
<1> QED BY <1>2, <1>3 DEF SystemInv, Whole

(* The claim at hand: Unprepare removes the directories in the step after  *)
(* which it is Undoing, and drops the entry in its last one.               *)
LEMMA WholeAtHand ==
  ASSUME SystemInv, Environment, Reuse, NEW h \in Handlers, Handle(h), pc[h] \in Inside,
         NEW c \in Claims, c = cur[h], view[c] = "unpreparing", checkpoint'[c] > 0
  PROVE  Usable(c)' \/ Undoing(h, c)'
<1>1. Stage(h) /\ call[h].op = "unprepare" /\ pc[h] \notin {"dirs", "spec"}
  BY AtHand DEF Pending, SystemInv, Calling, CallOf
<1>2. "spec" \notin Faults /\ "write" \notin Faults
  BY DEF Environment
<1>3. pc \in [Handlers -> {"idle", "called", "serving", "read", "dirs", "spec",
                           "rmdirs", "rmspec", "save"}]
  BY DEF SystemInv, TypeOK
<1>4. ~BeginCall(h) /\ ~Lock(h) /\ ~Reply(h)
  BY DEF BeginCall, Lock, Reply, Goto, Inside
<1>5. ~Prepare(h)
  BY <1>1 DEF Prepare, PrepareRestored, PrepareReadCheckpoint, PrepareReadFails, PrepareReads,
              PrepareDevices, PrepareDevicesFails, CreateClaimSpecFile,
              CreateClaimSpecFileFails
<1>6. CASE UnprepareReadCheckpoint(h)
  <2>1. UNCHANGED disk /\ pc[h] = "read"
    BY <1>6 DEF UnprepareReadCheckpoint, UnprepareReads
  <2>2. ~ \E g \in Handlers : Undoing(g, c)
    <3>1. \A g \in Handlers : pc[g] \in Inside => g = h
      BY MutualExclusion DEF SystemInv, Environment
    <3> QED BY <2>1, <3>1 DEF Undoing, Inside
  <2>3. Usable(c)
    BY <2>1, <2>2 DEF SystemInv, Whole, disk
  <2> QED BY <2>1, <2>3, DiskUnchanged, UntouchedKept
<1>7. CASE UnprepareReadFails(h)
  BY <1>7 DEF UnprepareReadFails, EmptyCheckpoint
<1>8. CASE UnprepareDevices(h) \/ DeleteClaimSpecFile(h)
  BY <1>3, <1>8 DEF UnprepareDevices, DeleteClaimSpecFile, Continue, Goto, Undoing
<1>9. CASE WriteCheckpoint(h)
  <2>1. pc[h] = "save" /\ checkpoint'[c] = cp[h][c]
    BY <1>9 DEF WriteCheckpoint, Return, Goto
  <2> QED BY <1>1, <2>1 DEF Stage
<1>10. ~UnprepareReplaceFails(h) /\ ~DeleteClaimSpecFileFails(h) /\ ~WriteCheckpointFails(h)
  BY <1>2 DEF UnprepareReplaceFails, DeleteClaimSpecFileFails, WriteCheckpointFails, Fault
<1> QED BY <1>4, <1>5, <1>6, <1>7, <1>8, <1>9, <1>10 DEF Handle, Unprepare

LEMMA WholeHandle ==
  ASSUME SystemInv, Environment, NEW h \in Handlers, Handle(h)
  PROVE  Whole'
<1> SUFFICES ASSUME Reuse, NEW c \in Claims, view'[c] = "unpreparing", checkpoint'[c] > 0
             PROVE  Usable(c)' \/ \E g \in Handlers : Undoing(g, c)'
  BY DEF Whole
<1>1. view[c] = "unpreparing"
  BY HandlerMoves DEF BeginCall, Lock, Reply, Outcome, Continue, Return
<1>2. CASE pc[h] \in Inside /\ c = cur[h]
  BY <1>1, <1>2, WholeAtHand
<1>3. CASE pc[h] \in Inside => c # cur[h]
  <2>1. Untouched(c)
    BY <1>3, Footprint DEF SystemInv, Environment
  <2>2. checkpoint[c] > 0 /\ (Usable(c) => Usable(c)')
    BY <2>1, UntouchedKept DEF Untouched
  <2>3. ASSUME NEW g \in Handlers, Undoing(g, c) PROVE Undoing(g, c)'
    <3>1. pc[g] \in Inside /\ g # h
      BY <1>3, <2>3 DEF Undoing, Inside
    <3>2. pc[h] \notin Inside
      BY <3>1, MutualExclusion DEF SystemInv, Environment
    <3>3. BeginCall(h) \/ Lock(h) \/ Reply(h)
      BY <3>2, PrepareInside, UnprepareInside
         DEF Handle, WriteCheckpoint, WriteCheckpointFails, Return, Goto, Inside
    <3>4. pc'[g] = pc[g] /\ cur'[g] = cur[g]
      BY <3>1, <3>3 DEF BeginCall, Lock, Reply, Goto, SystemInv, TypeOK
    <3> QED BY <2>3, <3>4 DEF Undoing
  <2> QED BY <1>1, <2>2, <2>3 DEF SystemInv, Whole
<1> QED BY <1>2, <1>3

-----------------------------------------------------------------------------
(* The invariant, and what it means to the kubelet. *)

LEMMA KeptStep ==
  ASSUME SystemInv, Environment, [Next]_vars
  PROVE  Kept'
<1>1. ASSUME NEW h \in Handlers, Handle(h) PROVE Kept'
  <2>1. OneAtATime /\ SeparateDirectories
    BY DEF Environment
  <2>2. \A c \in Claims : OnDisk(c)'
    BY <1>1, <2>1, OnDiskHandle
  <2>3. \A g \in Handlers : Stage(g)'
    BY <1>1, <2>1, StageOwn, StageOther
  <2>4. \A g \in Handlers : Answers(g)'
    BY <1>1, <2>1, AnswersHandle
  <2> QED BY <2>2, <2>3, <2>4 DEF Kept
<1>2. CASE UNCHANGED vars
  BY <1>2, KeptReset DEF vars, disk, handler
<1> QED BY <1>1, <1>2, KeptKubelet, KeptProcesses DEF Next

LEMMA SystemInvariant ==
  ASSUME Environment
  PROVE  Spec => []SystemInv
<1>1. Init => CommonSpecExists /\ Kept /\ Whole
  BY DEF Init, CommonSpecExists, Kept, Whole, OnDisk, Gone, Stage, Answers, EmptyCheckpoint
<1>2. TypeOK /\ Working /\ CommonSpecExists /\ [Next]_vars => CommonSpecExists'
  BY CommonSpecStep DEF Environment
<1>3. SystemInv /\ [Next]_vars => Kept' /\ Whole'
  BY KeptStep, WholeKubelet, WholeProcesses, WholeHandle DEF Next
<1>4. Spec => []FreshCopy
  BY FreshInvariant DEF Environment
<1>5. Spec => []Calling
  BY CallingInvariant
<1>6. SystemInv <=> /\ TypeOK /\ Working /\ Locks /\ FreshCopy /\ Calling
                     /\ CommonSpecExists /\ Kept /\ Whole
  BY DEF SystemInv
<1> QED BY <1>1, <1>2, <1>3, <1>4, <1>5, <1>6, TypeInvariant, LocksInvariant, PTL DEF Spec

LEMMA KeptInvariant ==
  ASSUME Environment
  PROVE  Spec => [](TypeOK /\ Kept)
<1>1. SystemInv => TypeOK /\ Kept
  BY DEF SystemInv
<1> QED BY <1>1, SystemInvariant, PTL

(* While the kubelet counts on a claim, its CDI specs and its directories  *)
(* are there: no call for another claim, failed call, crash, rolling       *)
(* update or loss of the checkpoint takes them away.                       *)
THEOREM PreparedStaysUsable ==
  ASSUME Environment
  PROVE  Spec => []PreparedUsable
<1>1. TypeOK /\ Kept => PreparedUsable
  BY DEF Kept, OnDisk, PreparedUsable
<1> QED BY <1>1, KeptInvariant, PTL

(* What was unprepared is gone from the checkpoint and from the CDI specs, *)
(* and no call in flight, for this claim or another one, brings it back.   *)
THEOREM UnpreparedStaysGone ==
  ASSUME Environment
  PROVE  Spec => []UnpreparedIsGone
<1>1. TypeOK /\ Kept => UnpreparedIsGone
  BY DEF TypeOK, Kept, OnDisk, Gone, UnpreparedIsGone, isRecorded
<1> QED BY <1>1, KeptInvariant, PTL

(* The checkpoint contains every prepared claim, unless reading it fails:  *)
(* Unprepare then replaces it by an empty one.                             *)
THEOREM PreparedIsRecorded ==
  ASSUME Environment, "read" \notin Faults
  PROVE  Spec => []CheckpointContainsPrepared
<1>1. TypeOK /\ Kept => CheckpointContainsPrepared
  BY DEF Kept, OnDisk, Recorded, CheckpointContainsPrepared, isRecorded
<1> QED BY <1>1, KeptInvariant, PTL

-----------------------------------------------------------------------------
(* Without failures, Unprepare undoes what Prepare has done. *)

Preparable(c) ==
    ValidSpec(c) /\ \A devices \in DeviceSets : computeDeviceConfig(devices, c)

(* No I/O operation fails, no process dies but at the end of a rolling     *)
(* update, and every claim can be prepared.                                *)
FailureFree ==
    /\ Environment
    /\ Faults = {} /\ MaxCrashes = 0
    /\ \A c \in Claims : Preparable(c) /\ ~Homonyms(c)

Configured == \A i \in Instances : up[i] => allocatable[i] \in DeviceSets

Made(c) == \E p \in MountedDirs(c) : hostDir[p] # NoDir

(* Handler h has made the directories of claim c and will record them. *)
WillRecord(h, c) == cur[h] = c /\ pc[h] \in {"spec", "save"} /\ call[h].op = "prepare"

Traced ==
    \A c \in Claims : Made(c) => checkpoint[c] > 0 \/ \E h \in Handlers : WillRecord(h, c)

FailureFreeInv == SystemInv /\ Undone /\ Configured /\ Traced

LEMMA NoFaultOccurs ==
  ASSUME FailureFree
  PROVE  \A kind : ~Fault(kind)
BY DEF FailureFree, Fault

LEMMA ConfiguredStep ==
  ASSUME TypeOK, Configured, [Next]_vars
  PROVE  Configured'
<1> USE DEF TypeOK, Configured
<1>1. ASSUME UNCHANGED <<up, allocatable>> PROVE Configured'
  BY <1>1
<1>2. ASSUME NEW dead, Die(dead) PROVE Configured'
  BY <1>2 DEF Die
<1>3. CASE Kubelet \/ UNCHANGED vars
  BY <1>1, <1>3 DEF Kubelet, PodAdded, PodRemoved, KubeletRestarts, PrepareRequest,
                    UnprepareRequest, Request, GiveUp, process, vars
<1>4. CASE Processes
  <2>1. ASSUME NEW i \in Instances, Start(i) PROVE Configured'
    <3>1. PICK devices \in DeviceSets : allocatable' = [allocatable EXCEPT ![i] = devices]
      BY <2>1 DEF Start
    <3> QED BY <2>1, <3>1 DEF Start
  <2> QED BY <1>2, <1>4, <2>1 DEF Processes, Shutdown, Crash, Reboot
<1>5. ASSUME NEW h \in Handlers, Handle(h) PROVE Configured'
  BY <1>1, <1>2, <1>5, HandlerMoves DEF BeginCall, Lock, Reply, Continue, Return, process
<1> QED BY <1>3, <1>4, <1>5 DEF Next

(* Steps that leave the directories and the entries alone, and every       *)
(* handler that is about to record something where it was.                 *)
LEMMA TracedKept ==
  ASSUME Traced, UNCHANGED <<checkpoint, hostDir>>,
         \A h \in Handlers, c \in Claims : WillRecord(h, c) => WillRecord(h, c)'
  PROVE  Traced'
BY DEF Traced, Made

LEMMA TracedOther ==
  ASSUME FailureFree, FailureFreeInv, Kubelet \/ Processes \/ UNCHANGED vars
  PROVE  Traced'
<1>1. CASE Kubelet
  <2>1. UNCHANGED <<checkpoint, hostDir, cur>>
    BY <1>1 DEF Kubelet, PodAdded, PodRemoved, KubeletRestarts, PrepareRequest,
                UnprepareRequest, Request, GiveUp, disk, handler
  <2>2. ASSUME NEW h \in Handlers, pc[h] \in {"spec", "save"}
        PROVE  pc'[h] = pc[h] /\ call'[h].op = call[h].op
    <3>1. \A g \in Handlers : [call[g] EXCEPT !.live = FALSE].op = call[g].op
      BY DEF FailureFreeInv, SystemInv, TypeOK
    <3>2. CASE KubeletRestarts
      BY <3>1, <3>2 DEF KubeletRestarts
    <3>3. CASE \E g \in Handlers : GiveUp(g)
      BY <3>3 DEF GiveUp, FailureFree, Environment
    <3>4. CASE \E c \in Claims : PodAdded(c) \/ PodRemoved(c)
      BY <3>4 DEF PodAdded, PodRemoved, handler
    <3>5. CASE \E g \in Handlers, batch \in SUBSET Claims :
                   PrepareRequest(g, batch) \/ UnprepareRequest(g, batch)
      BY <2>2, <3>5 DEF PrepareRequest, UnprepareRequest, Request, Goto, FailureFreeInv,
                        SystemInv, TypeOK
    <3> QED BY <1>1, <3>2, <3>3, <3>4, <3>5 DEF Kubelet
  <2> QED BY <2>1, <2>2, TracedKept DEF FailureFreeInv, WillRecord
<1>2. CASE Processes
  <2>1. ASSUME NEW i \in Instances, Start(i) PROVE Traced'
    BY <2>1, TracedKept DEF Start, handler, FailureFreeInv, WillRecord
  <2>2. ASSUME NEW i \in Instances, Shutdown(i) PROVE Traced'
    <3>1. \A h \in Handlers : pc[h] \in {"spec", "save"} =>
              pc'[h] = pc[h] /\ call'[h] = call[h] /\ cur'[h] = cur[h]
      BY <2>2 DEF Shutdown, Die
    <3> QED BY <2>2, <3>1, TracedKept DEF Shutdown, disk, FailureFreeInv, WillRecord
  <2>3. ASSUME NEW i \in Instances PROVE ~Crash(i)
    BY DEF Crash, FailureFree, FailureFreeInv, SystemInv, TypeOK
  <2>4. ~Reboot
    BY DEF Reboot, FailureFree, Environment
  <2> QED BY <1>2, <2>1, <2>2, <2>3, <2>4 DEF Processes
<1>3. CASE UNCHANGED vars
  BY <1>3, TracedKept DEF vars, disk, handler, FailureFreeInv, WillRecord
<1> QED BY <1>1, <1>2, <1>3

(* For the other claims only the disk matters: no other handler is inside. *)
LEMMA TracedElsewhere ==
  ASSUME FailureFree, FailureFreeInv, NEW h \in Handlers, pc[h] \in Inside, Handle(h),
         NEW c \in Claims, c # cur[h], Made(c)'
  PROVE  checkpoint'[c] > 0
<1>1. Untouched(c)
  BY Footprint DEF FailureFree, Environment, FailureFreeInv, SystemInv
<1>2. Made(c) /\ checkpoint'[c] = checkpoint[c]
  BY <1>1 DEF Untouched, Made, FailureFree
<1>3. ~ \E g \in Handlers : WillRecord(g, c)
  <2>1. \A g \in Handlers : pc[g] \in Inside => g = h
    BY MutualExclusion DEF FailureFree, Environment, FailureFreeInv, SystemInv
  <2> QED BY <2>1 DEF WillRecord, Inside
<1> QED BY <1>2, <1>3 DEF FailureFreeInv, Traced

(* The claim at hand. *)
LEMMA TracedAtHand ==
  ASSUME FailureFree, FailureFreeInv, NEW h \in Handlers, pc[h] \in Inside, Handle(h),
         NEW c \in Claims, c = cur[h], Made(c)'
  PROVE  checkpoint'[c] > 0 \/ WillRecord(h, c)'
<1>0. Stage(h) /\ UndoneSoFar(h) /\ call[h].op \in {"prepare", "unprepare"}
      /\ up[InstanceOf[h]] /\ InstanceOf[h] \in Instances
  BY AtHand, HandlersAssumption DEF FailureFreeInv, Undone, SystemInv, Calling, CallOf, Inside
<1>1. ASSUME UNCHANGED <<checkpoint, hostDir>> PROVE checkpoint'[c] > 0 \/ WillRecord(h, c)
  <2>1. Made(c)
    BY <1>1 DEF Made
  <2>2. \A g \in Handlers : WillRecord(g, c) => g = h
    BY MutualExclusion DEF WillRecord, Inside, FailureFree, Environment, FailureFreeInv, SystemInv
  <2> QED BY <1>0, <1>1, <2>1, <2>2 DEF FailureFreeInv, Traced
<1>2. TypeOK
  BY DEF FailureFreeInv, SystemInv
<1>3. CASE BeginCall(h) \/ Lock(h) \/ Reply(h)
  BY <1>3 DEF BeginCall, Lock, Reply, Goto, Inside
<1>4. CASE Prepare(h)
  <2>1. CASE PrepareRestored(h) \/ PrepareReadCheckpoint(h)
    BY <1>1, <2>1 DEF PrepareRestored, PrepareReadCheckpoint, PrepareReads, WillRecord, disk
  <2>2. CASE PrepareDevices(h)
    <3>1. allocatable[InstanceOf[h]] \in DeviceSets
      BY <1>0 DEF FailureFreeInv, Configured
    <3>2. computeDeviceConfig(allocatable[InstanceOf[h]], c)
      BY <1>0, <3>1 DEF FailureFree, Preparable
    <3>3. Continue(h, "dirs", "spec") /\ pc[h] = "dirs"
      BY <2>2, <3>2 DEF PrepareDevices
    <3>4. call[h].op = "prepare"
      BY <1>0, <3>3 DEF UndoneSoFar
    <3> QED BY <1>2, <3>3, <3>4 DEF Continue, Goto, WillRecord, TypeOK
  <2>3. CASE CreateClaimSpecFile(h)
    BY <1>0, <1>2, <2>3 DEF CreateClaimSpecFile, Continue, Goto, WillRecord, TypeOK, UndoneSoFar
  <2>4. ~CreateClaimSpecFileFails(h)
    BY <1>0, NoFaultOccurs DEF CreateClaimSpecFileFails, FailureFree, Preparable
  <2> QED BY <1>4, <2>1, <2>2, <2>3, <2>4, NoFaultOccurs
          DEF Prepare, PrepareReadFails, PrepareDevicesFails
<1>5. CASE Unprepare(h)
  <2>1. CASE UnprepareReadCheckpoint(h)
    BY <1>1, <2>1 DEF UnprepareReadCheckpoint, UnprepareReads, WillRecord, disk
  <2>2. CASE UnprepareDevices(h)
    <3>1. pc[h] = "rmdirs" /\ UNCHANGED checkpoint
      BY <2>2 DEF UnprepareDevices
    <3>2. CASE checkpoint[c] > 0
      BY <3>1, <3>2
    <3>3. CASE ~(checkpoint[c] > 0)
      <4>1. ~isRecorded(cp[h], c)
        BY <1>0, <3>1, <3>3 DEF UndoneSoFar, isRecorded
      <4>2. hostDir' = deleteClaimDirectories({})
        BY <2>2, <4>1, NoFaultOccurs DEF UnprepareDevices
      <4>3. hostDir' = hostDir
        BY <1>2, <4>2 DEF deleteClaimDirectories, TypeOK
      <4> QED BY <1>1, <3>1, <4>3 DEF WillRecord
    <3> QED BY <3>2, <3>3
  <2>3. CASE DeleteClaimSpecFile(h)
    BY <1>1, <2>3 DEF DeleteClaimSpecFile, Continue, Goto, WillRecord
  <2> QED BY <1>5, <2>1, <2>2, <2>3, NoFaultOccurs
          DEF Unprepare, UnprepareReadFails, UnprepareReplaceFails, DeleteClaimSpecFileFails
<1>6. CASE WriteCheckpoint(h)
  <2>1. pc[h] = "save" /\ checkpoint' = cp[h] /\ UNCHANGED hostDir
    BY <1>6 DEF WriteCheckpoint, Return, Goto
  <2>2. CASE call[h].op = "prepare"
    BY <1>0, <2>1, <2>2 DEF Stage
  <2>3. CASE call[h].op = "unprepare"
    <3>1. Made(c)
      BY <2>1 DEF Made
    <3>2. ~(checkpoint[c] > 0)
      BY <1>0, <2>1, <2>3, <3>1 DEF UndoneSoFar, Cleared, FailureFree, Made
    <3>3. \A g \in Handlers : WillRecord(g, c) => g = h
      BY MutualExclusion DEF WillRecord, Inside, FailureFree, Environment, FailureFreeInv, SystemInv
    <3> QED BY <1>0, <2>3, <3>1, <3>2, <3>3 DEF FailureFreeInv, Traced, WillRecord
  <2> QED BY <1>0, <2>2, <2>3
<1> QED BY <1>3, <1>4, <1>5, <1>6, NoFaultOccurs DEF Handle, WriteCheckpointFails

LEMMA TracedHandle ==
  ASSUME FailureFree, FailureFreeInv, NEW h \in Handlers, Handle(h)
  PROVE  Traced'
<1>1. CASE pc[h] \in Inside
  <2>1. cur[h] \in Claims
    BY <1>1, AtHand DEF FailureFreeInv
  <2>2. ASSUME NEW c \in Claims, Made(c)'
        PROVE  checkpoint'[c] > 0 \/ \E g \in Handlers : WillRecord(g, c)'
    <3>1. CASE c = cur[h]
      BY <1>1, <2>2, <3>1, TracedAtHand
    <3>2. CASE c # cur[h]
      BY <1>1, <2>2, <3>2, TracedElsewhere
    <3> QED BY <3>1, <3>2
  <2> QED BY <2>2 DEF Traced
<1>2. CASE pc[h] \notin Inside
  <2>1. BeginCall(h) \/ Lock(h) \/ Reply(h)
    BY <1>2, PrepareInside, UnprepareInside
       DEF Handle, WriteCheckpoint, WriteCheckpointFails, Return, Goto, Inside
  <2>2. UNCHANGED <<checkpoint, hostDir>>
    BY <2>1 DEF BeginCall, Lock, Reply, disk
  <2>3. \A g \in Handlers \ {h} : pc'[g] = pc[g] /\ cur'[g] = cur[g] /\ call'[g] = call[g]
    BY <2>1 DEF BeginCall, Lock, Reply, Goto, FailureFreeInv, SystemInv, TypeOK
  <2>4. \A c : ~WillRecord(h, c)
    BY <1>2 DEF WillRecord, Inside
  <2> QED BY <2>2, <2>3, <2>4, TracedKept DEF FailureFreeInv, WillRecord
<1> QED BY <1>1, <1>2

(* "unprepareDevices undoes any side-effects produced by                   *)
(* [DeviceState.prepareDevices]", for any number of claims, handlers and   *)
(* instances and through any rolling update, as long as nothing fails.     *)
(* What is left by a Prepare that failed is not undone: see the run leak.  *)
THEOREM SideEffectsUndone ==
  ASSUME FailureFree
  PROVE  Spec => []UndoesSideEffects
<1>1. Init => Configured /\ Traced /\ Undone
  BY MountedDir DEF Init, Configured, Traced, Made, Undone, UndoneSoFar
<1>2. SystemInv /\ Undone /\ [Next]_vars => Undone'
  BY UndoneOther, UndoneHandle DEF SystemInv, FailureFree, Environment, Next
<1>3. SystemInv /\ Configured /\ [Next]_vars => Configured'
  BY ConfiguredStep DEF SystemInv
<1>4. FailureFreeInv /\ [Next]_vars => Traced'
  BY TracedOther, TracedHandle DEF Next
<1>5. FailureFreeInv => UndoesSideEffects
  <2> SUFFICES ASSUME FailureFreeInv, NEW c \in Claims, view[c] = "idle" PROVE ~Made(c)
    BY DEF UndoesSideEffects, Made
  <2>1. ~(checkpoint[c] > 0)
    BY DEF FailureFreeInv, SystemInv, Kept, OnDisk, Gone
  <2>2. ASSUME NEW h \in Handlers, WillRecord(h, c) PROVE FALSE
    <3>1. pc[h] \in Inside /\ view[c] = Pending(call[h].op)
      BY <2>2, AtHand DEF WillRecord, Inside, FailureFreeInv
    <3> QED BY <3>1 DEF Pending
  <2> QED BY <2>1, <2>2 DEF FailureFreeInv, Traced
<1>6. Spec => []SystemInv
  BY SystemInvariant DEF FailureFree
<1>7. FailureFreeInv <=> SystemInv /\ Undone /\ Configured /\ Traced
  BY DEF FailureFreeInv
<1> QED BY <1>1, <1>2, <1>3, <1>4, <1>5, <1>6, <1>7, PTL DEF Spec
=============================================================================
