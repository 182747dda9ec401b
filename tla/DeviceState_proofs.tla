------------------------- MODULE DeviceState_proofs -------------------------
(***************************************************************************)
(* What holds of DeviceState for any number of claims, handlers, instances *)
(* and failures.                                                           *)
(***************************************************************************)
EXTENDS DeviceState, StableName_proofs

Directories == {NoDir, NoMetadata} \cup AllDevices
Calls == [op : {"none", "prepare", "unprepare"}, claims : SUBSET Claims, live : BOOLEAN]

-----------------------------------------------------------------------------
(* The directories. *)

LEMMA ResultOfClaim ==
  ASSUME NEW c \in Claims, NEW k \in OwnResults(c)
  PROVE  /\ k \in 1 .. Len(Results(c))
         /\ Len(Results(c)) \in Nat
         /\ Results(c)[k].device \in AllDevices
         /\ ResultDir(c, k) \in Paths
<1>1. Len(Results(c)) \in Nat
  BY ClaimAssumption DEF Results
<1>2. k \in 1 .. Len(Results(c))
  BY DEF OwnResults
<1>3. Results(c)[k].device \in AllDevices
  BY <1>2 DEF AllDevices, Devices
<1>4. ResultDir(c, k) \in Paths
  BY <1>2 DEF Paths
<1> QED BY <1>1, <1>2, <1>3, <1>4

LEMMA CreatedDirectories ==
  ASSUME hostDir \in [Paths -> Directories], NEW c \in Claims, NEW k
  PROVE  createClaimDirectories(c, k) \in [Paths -> Directories]
<1>1. ASSUME NEW p \in Paths,
             NEW made, made = {j \in OwnResults(c) : j <= k /\ ResultDir(c, j) = p}, made # {}
      PROVE  Results(c)[Max(made)].device \in Directories
  <2>1. Len(Results(c)) \in Nat
    BY ClaimAssumption DEF Results
  <2>2. made \subseteq OwnResults(c) /\ made \subseteq 1 .. Len(Results(c))
    BY <1>1 DEF OwnResults
  <2>3. Max(made) \in made
    BY <1>1, <2>1, <2>2, MaxOfSet
  <2> QED BY <2>2, <2>3, ResultOfClaim DEF Directories
<1> QED BY <1>1 DEF createClaimDirectories

LEMMA PartialDirectories ==
  ASSUME hostDir \in [Paths -> Directories], NEW c \in Claims, NEW k \in OwnResults(c),
         NEW dirs \in FailedDirectories(c, k)
  PROVE  dirs \in [Paths -> Directories]
<1> DEFINE before == createClaimDirectories(c, k - 1)
<1>1. before \in [Paths -> Directories]
  BY CreatedDirectories
<1>2. PICK left \in {before[ResultDir(c, k)], NoMetadata, Results(c)[k].device} :
          dirs = [before EXCEPT ![ResultDir(c, k)] = left]
  BY DEF FailedDirectories
<1> HIDE DEF before
<1>3. left \in Directories
  BY <1>1, ResultOfClaim DEF Directories
<1> QED BY <1>1, <1>2, <1>3

LEMMA DeletedDirectories ==
  ASSUME hostDir \in [Paths -> Directories], NEW removed
  PROVE  /\ deleteClaimDirectories(removed) \in [Paths -> Directories]
         /\ FailedRemovals(removed) \subseteq [Paths -> Directories]
BY DEF deleteClaimDirectories, FailedRemovals, Directories

-----------------------------------------------------------------------------
(* Types. *)

LEMMA TypeInit == Init => TypeOK
BY DEF Init, TypeOK, EmptyCheckpoint, Idle

LEMMA TypeKubelet ==
  ASSUME TypeOK, Kubelet
  PROVE  TypeOK'
<1> USE DEF TypeOK
<1>1. ASSUME NEW c \in Claims, PodAdded(c) PROVE TypeOK'
  BY <1>1 DEF PodAdded, disk, process, handler, bounds
<1>2. ASSUME NEW c \in Claims, PodRemoved(c) PROVE TypeOK'
  BY <1>2 DEF PodRemoved, disk, process, handler, bounds
<1>3. CASE KubeletRestarts
  BY <1>3 DEF KubeletRestarts, Forgotten, disk, process, bounds
<1>4. ASSUME NEW h \in Handlers, NEW batch \in SUBSET Claims,
             PrepareRequest(h, batch) \/ UnprepareRequest(h, batch)
      PROVE  TypeOK'
  <2>1. PICK op \in {"prepare", "unprepare"} : Request(h, op, batch)
    BY <1>4 DEF PrepareRequest, UnprepareRequest
  <2>2. call' \in [Handlers -> Calls]
    <3>1. [op |-> op, claims |-> batch, live |-> TRUE] \in Calls
      BY DEF Calls
    <3> QED BY <2>1, <3>1 DEF Request, Calls
  <2> QED BY <2>1, <2>2 DEF Request, Goto, disk, process, bounds, Calls
<1>5. ASSUME NEW h \in Handlers, GiveUp(h) PROVE TypeOK'
  <2>1. call' \in [Handlers -> Calls]
    <3>1. call[h] \in Calls
      BY DEF Calls
    <3>2. [call[h] EXCEPT !.live = FALSE] \in Calls
      BY <3>1 DEF Calls
    <3> QED BY <1>5, <3>2 DEF GiveUp, Calls
  <2> QED BY <1>5, <2>1 DEF GiveUp, disk, process, bounds, Calls
<1> QED BY <1>1, <1>2, <1>3, <1>4, <1>5 DEF Kubelet

(* The variables of a process and of its handlers after its death. *)
LEMMA TypeDie ==
  ASSUME TypeOK, NEW dead, Die(dead)
  PROVE  /\ up' \in [Instances -> BOOLEAN]
         /\ allocatable' \in [Instances -> DeviceSets \cup {{}}]
         /\ mutex' \in [Instances -> Handlers \cup {None}]
         /\ serial' \in Handlers \cup {None}
         /\ pc' \in [Handlers -> {"idle", "called", "serving", "read", "dirs", "spec",
                                  "rmdirs", "rmspec", "save"}]
         /\ call' \in [Handlers -> [op : {"none", "prepare", "unprepare"},
                                    claims : SUBSET Claims, live : BOOLEAN]]
         /\ todo' \in [Handlers -> SUBSET Claims]
         /\ done' \in [Handlers -> SUBSET Claims]
         /\ cur' \in [Handlers -> Claims \cup {None}]
         /\ cp' \in [Handlers -> [Claims -> Nat]]
BY DEF TypeOK, Die, EmptyCheckpoint, Idle

LEMMA TypeProcesses ==
  ASSUME TypeOK, Processes
  PROVE  TypeOK'
<1>1. ASSUME NEW i \in Instances, Start(i) PROVE TypeOK'
  BY <1>1 DEF TypeOK, Start, CreateCommonSpecFile, handler, bounds
<1>2. ASSUME NEW i \in Instances, Shutdown(i) PROVE TypeOK'
  <2>1. Die({i}) /\ UNCHANGED <<disk, view, bounds>>
    BY <1>2 DEF Shutdown
  <2> QED BY <2>1, TypeDie DEF TypeOK, disk, bounds
<1>3. ASSUME NEW i \in Instances, Crash(i) PROVE TypeOK'
  <2>1. Die({i}) /\ crashes' = crashes + 1 /\ UNCHANGED <<disk, view, faults>>
    BY <1>3 DEF Crash
  <2> QED BY <2>1, TypeDie DEF TypeOK, disk
<1>4. CASE Reboot
  <2>1. /\ Die(Instances)
        /\ crashes' = crashes + 1
        /\ hostDir' = [p \in Paths |-> NoDir] /\ roots' = {} /\ specs' = {}
        /\ view' = Forgotten
        /\ UNCHANGED <<checkpoint, faults>>
    BY <1>4 DEF Reboot
  <2> QED BY <2>1, TypeDie DEF TypeOK, Forgotten
<1> QED BY <1>1, <1>2, <1>3, <1>4 DEF Processes

LEMMA TypeReturn ==
  ASSUME TypeOK, NEW h \in Handlers, NEW from, NEW ok \in BOOLEAN, Return(h, from, ok),
         cur[h] \in Claims
  PROVE  /\ mutex' \in [Instances -> Handlers \cup {None}]
         /\ pc' \in [Handlers -> {"idle", "called", "serving", "read", "dirs", "spec",
                                  "rmdirs", "rmspec", "save"}]
         /\ done' \in [Handlers -> SUBSET Claims]
         /\ cur' \in [Handlers -> Claims \cup {None}]
         /\ cp' \in [Handlers -> [Claims -> Nat]]
         /\ UNCHANGED <<up, allocatable, serial, call, todo, view>>
BY HandlersAssumption DEF TypeOK, Return, Goto, EmptyCheckpoint

-----------------------------------------------------------------------------
(* Control: where a handler holds its instance's mutex and works on a claim. *)

Working == \A h \in Handlers : pc[h] \in Inside => cur[h] \in Claims

LEMMA PrepareInside ==
  ASSUME NEW h \in Handlers, Prepare(h)
  PROVE  pc[h] \in Inside
BY DEF Prepare, PrepareRestored, PrepareReadCheckpoint, PrepareReadFails, PrepareReads,
       PrepareDevices, PrepareDevicesFails, CreateClaimSpecFile, CreateClaimSpecFileFails,
       Return, Goto, Inside

LEMMA UnprepareInside ==
  ASSUME NEW h \in Handlers, Unprepare(h)
  PROVE  pc[h] \in Inside
BY DEF Unprepare, UnprepareReadCheckpoint, UnprepareReadFails, UnprepareReplaceFails,
       UnprepareReads, UnprepareDevices, DeleteClaimSpecFile, DeleteClaimSpecFileFails,
       Continue, Return, Goto, Inside

(* A handler's step is one of six as far as control goes. *)
LEMMA HandlerMoves ==
  ASSUME NEW h \in Handlers, Handle(h)
  PROVE  \/ BeginCall(h)
         \/ Lock(h)
         \/ Reply(h)
         \/ \E from, to \in Inside : Continue(h, from, to)
         \/ \E from \in Inside, ok \in BOOLEAN : Return(h, from, ok)
         \/ Die({InstanceOf[h]}) /\ UNCHANGED view
<1>1. CASE Prepare(h)
  <2>1. CASE PrepareRestored(h)
    <3>1. computeDeviceConfig(allocatable[InstanceOf[h]], cur[h]) \in BOOLEAN
      BY DEF computeDeviceConfig
    <3> QED BY <2>1, <3>1 DEF PrepareRestored, Inside
  <2>2. CASE PrepareReadCheckpoint(h)
    BY <2>2 DEF PrepareReadCheckpoint, Inside
  <2>3. CASE PrepareReadFails(h)
    BY <2>3 DEF PrepareReadFails, Inside
  <2>4. CASE PrepareDevices(h)
    BY <2>4 DEF PrepareDevices, Inside
  <2>5. CASE PrepareDevicesFails(h)
    BY <2>5 DEF PrepareDevicesFails, Inside
  <2>6. CASE CreateClaimSpecFile(h)
    BY <2>6 DEF CreateClaimSpecFile, Inside
  <2>7. CASE CreateClaimSpecFileFails(h)
    BY <2>7 DEF CreateClaimSpecFileFails, Inside
  <2> QED BY <1>1, <2>1, <2>2, <2>3, <2>4, <2>5, <2>6, <2>7 DEF Prepare
<1>2. CASE Unprepare(h)
  <2>1. CASE UnprepareReadCheckpoint(h)
    BY <2>1 DEF UnprepareReadCheckpoint, Inside
  <2>2. CASE UnprepareReadFails(h)
    BY <2>2 DEF UnprepareReadFails
  <2>3. CASE UnprepareReplaceFails(h)
    BY <2>3 DEF UnprepareReplaceFails, Inside
  <2>4. CASE UnprepareDevices(h)
    BY <2>4 DEF UnprepareDevices, Inside
  <2>5. CASE DeleteClaimSpecFile(h)
    BY <2>5 DEF DeleteClaimSpecFile, Inside
  <2>6. CASE DeleteClaimSpecFileFails(h)
    BY <2>6 DEF DeleteClaimSpecFileFails, Inside
  <2> QED BY <1>2, <2>1, <2>2, <2>3, <2>4, <2>5, <2>6 DEF Unprepare
<1>3. CASE WriteCheckpoint(h) \/ WriteCheckpointFails(h)
  BY <1>3 DEF WriteCheckpoint, WriteCheckpointFails, Inside
<1> QED BY <1>1, <1>2, <1>3 DEF Handle

(* What the other steps do to the handlers. *)
LEMMA OtherMoves ==
  ASSUME Kubelet \/ Processes
  PROVE  \/ UNCHANGED <<mutex, serial, pc, todo, done, cur, cp>>
         \/ \E h \in Handlers : /\ Goto(h, "idle", "called")
                                /\ UNCHANGED <<mutex, serial, done, cur, cp>>
         \/ \E dead \in SUBSET Instances : Die(dead)
<1>1. CASE Kubelet
  <2>1. CASE \E c \in Claims : PodAdded(c) \/ PodRemoved(c)
    BY <2>1 DEF PodAdded, PodRemoved, process, handler
  <2>2. CASE KubeletRestarts
    BY <2>2 DEF KubeletRestarts, process
  <2>3. CASE \E h \in Handlers, batch \in SUBSET Claims :
                 PrepareRequest(h, batch) \/ UnprepareRequest(h, batch)
    BY <2>3 DEF PrepareRequest, UnprepareRequest, Request, process
  <2>4. CASE \E h \in Handlers : GiveUp(h)
    BY <2>4 DEF GiveUp, process
  <2> QED BY <1>1, <2>1, <2>2, <2>3, <2>4 DEF Kubelet
<1>2. CASE Processes
  BY <1>2 DEF Processes, Start, Shutdown, Crash, Reboot, handler
<1> QED BY <1>1, <1>2

LEMMA WorkingStep ==
  ASSUME TypeOK, Working, [Next]_vars
  PROVE  Working'
<1> USE DEF TypeOK, Working, Inside
<1>1. ASSUME NEW h \in Handlers, Goto(h, "idle", "called"), UNCHANGED cur PROVE Working'
  BY <1>1 DEF Goto
<1>2. ASSUME NEW dead, Die(dead) PROVE Working'
  BY <1>2 DEF Die
<1>3. CASE Kubelet \/ Processes
  BY <1>1, <1>2, <1>3, OtherMoves
<1>4. ASSUME NEW h \in Handlers, Handle(h) PROVE Working'
  <2>1. CASE BeginCall(h) \/ Lock(h) \/ Reply(h)
    BY <2>1 DEF BeginCall, Lock, Reply, Goto
  <2>2. ASSUME NEW from \in Inside, NEW to \in Inside, Continue(h, from, to) PROVE Working'
    BY <2>2 DEF Continue, Goto
  <2>3. ASSUME NEW from \in Inside, NEW ok \in BOOLEAN, Return(h, from, ok) PROVE Working'
    BY <2>3 DEF Return, Goto
  <2> QED BY <1>2, <1>4, <2>1, <2>2, <2>3, HandlerMoves
<1>5. CASE UNCHANGED vars
  BY <1>5 DEF vars, handler
<1> QED BY <1>3, <1>4, <1>5 DEF Next

-----------------------------------------------------------------------------
(* Types of the handlers' steps. *)

LEMMA TypeOuter ==
  ASSUME TypeOK, NEW h \in Handlers, BeginCall(h) \/ Lock(h) \/ Reply(h)
  PROVE  TypeOK'
<1> USE DEF TypeOK, Goto, disk, bounds
<1>1. CASE BeginCall(h)
  <2>1. serial' \in Handlers \cup {None}
    BY <1>1 DEF BeginCall
  <2>2. UNCHANGED <<disk, up, allocatable, mutex, call, todo, done, cur, cp, view, bounds>>
    BY <1>1 DEF BeginCall
  <2>3. pc' = [pc EXCEPT ![h] = "serving"]
    BY <1>1 DEF BeginCall
  <2> QED BY <2>1, <2>2, <2>3
<1>2. CASE Lock(h)
  <2>1. PICK c \in todo[h] : /\ mutex' = [mutex EXCEPT ![InstanceOf[h]] = h]
                            /\ cur' = [cur EXCEPT ![h] = c]
                            /\ todo' = [todo EXCEPT ![h] = @ \ {c}]
    BY <1>2 DEF Lock
  <2>2. c \in Claims
    OBVIOUS
  <2>3. pc' = [pc EXCEPT ![h] = "read"]
    BY <1>2 DEF Lock
  <2>4. UNCHANGED <<disk, up, allocatable, serial, call, done, cp, view, bounds>>
    BY <1>2 DEF Lock
  <2> QED BY <2>1, <2>2, <2>3, <2>4, HandlersAssumption
<1>3. CASE Reply(h)
  BY <1>3 DEF Reply, Outcome, Idle
<1> QED BY <1>1, <1>2, <1>3

(* The checkpoint in memory and the bounds. *)
LEMMA TypeOfParts ==
  ASSUME TypeOK, NEW k \in [Claims -> Nat], NEW c \in Claims
  PROVE  /\ addClaimToCheckpoint(k, c) \in [Claims -> Nat]
         /\ removeClaimFromCheckpoint(k, c) \in [Claims -> Nat]
         /\ EmptyCheckpoint \in [Claims -> Nat]
         /\ NoFault => (faults' \in Nat /\ crashes' \in Nat)
         /\ \A kind : Fault(kind) => (faults' \in Nat /\ crashes' \in Nat)
<1>1. addClaimToCheckpoint(k, c) \in [Claims -> Nat]
  BY DEF addClaimToCheckpoint
<1>2. removeClaimFromCheckpoint(k, c) \in [Claims -> Nat]
  BY DEF removeClaimFromCheckpoint
<1>3. EmptyCheckpoint \in [Claims -> Nat]
  BY DEF EmptyCheckpoint
<1>4. NoFault => (faults' \in Nat /\ crashes' \in Nat)
  BY DEF TypeOK, NoFault, bounds
<1>5. ASSUME NEW kind, Fault(kind) PROVE faults' \in Nat /\ crashes' \in Nat
  BY <1>5 DEF TypeOK, Fault
<1> QED BY <1>1, <1>2, <1>3, <1>4, <1>5

LEMMA TypeContinue ==
  ASSUME TypeOK, NEW h \in Handlers, NEW from, NEW to \in Inside, Continue(h, from, to)
  PROVE  /\ pc' \in [Handlers -> {"idle", "called", "serving", "read", "dirs", "spec",
                                  "rmdirs", "rmspec", "save"}]
         /\ UNCHANGED <<up, allocatable, mutex, serial, call, todo, done, cur, view>>
BY DEF TypeOK, Continue, Goto, Inside, process

LEMMA TypePrepare ==
  ASSUME TypeOK, NEW h \in Handlers, cur[h] \in Claims, Prepare(h)
  PROVE  TypeOK'
<1> USE TypeReturn, TypeOfParts
<1>1. CASE PrepareRestored(h)
  <2>1. computeDeviceConfig(allocatable[InstanceOf[h]], cur[h]) \in BOOLEAN
    BY DEF computeDeviceConfig
  <2>2. PICK ok \in BOOLEAN : Return(h, "read", ok)
    BY <1>1, <2>1 DEF PrepareRestored
  <2>3. NoFault /\ UNCHANGED disk
    BY <1>1 DEF PrepareRestored
  <2>4. faults' \in Nat /\ crashes' \in Nat
    BY <2>3 DEF TypeOK, NoFault, bounds
  <2> QED BY <2>2, <2>3, <2>4, TypeReturn DEF TypeOK, disk
<1>2. CASE PrepareReadCheckpoint(h)
  BY <1>2, TypeContinue DEF PrepareReadCheckpoint, TypeOK, disk, Inside
<1>3. CASE PrepareReadFails(h)
  BY <1>3 DEF PrepareReadFails, TypeOK, disk
<1>4. CASE PrepareDevices(h)
  <2>1. hostDir' \in [Paths -> Directories] /\ roots' \subseteq {Root(c) : c \in Claims}
    BY <1>4, CreatedDirectories DEF PrepareDevices, TypeOK, Directories
  <2>2. CASE Return(h, "dirs", FALSE)
    BY <1>4, <2>1, <2>2 DEF PrepareDevices, TypeOK, Directories
  <2>3. CASE Continue(h, "dirs", "spec") /\ cp' = [cp EXCEPT ![h] = addClaimToCheckpoint(@, cur[h])]
    <3>1. cp' \in [Handlers -> [Claims -> Nat]]
      BY <2>3 DEF TypeOK
    <3> QED BY <1>4, <2>1, <2>3, <3>1, TypeContinue DEF PrepareDevices, TypeOK, Directories, Inside
  <2> QED BY <1>4, <2>2, <2>3 DEF PrepareDevices
<1>5. CASE PrepareDevicesFails(h)
  <2>1. hostDir' \in [Paths -> Directories]
    BY <1>5, PartialDirectories DEF PrepareDevicesFails, TypeOK, Directories
  <2>2. roots' \subseteq {Root(c) : c \in Claims}
    BY <1>5 DEF PrepareDevicesFails, TypeOK
  <2> QED BY <1>5, <2>1, <2>2 DEF PrepareDevicesFails, TypeOK, Directories
<1>6. CASE CreateClaimSpecFile(h)
  BY <1>6, TypeContinue DEF CreateClaimSpecFile, TypeOK, Inside
<1>7. CASE CreateClaimSpecFileFails(h)
  BY <1>7 DEF CreateClaimSpecFileFails, TypeOK, disk
<1> QED BY <1>1, <1>2, <1>3, <1>4, <1>5, <1>6, <1>7 DEF Prepare

LEMMA TypeUnprepare ==
  ASSUME TypeOK, NEW h \in Handlers, cur[h] \in Claims, Unprepare(h)
  PROVE  TypeOK'
<1> USE TypeReturn, TypeOfParts
<1>1. CASE UnprepareReadCheckpoint(h)
  BY <1>1, TypeContinue DEF UnprepareReadCheckpoint, TypeOK, disk, Inside
<1>2. CASE UnprepareReadFails(h)
  BY <1>2, TypeDie DEF UnprepareReadFails, TypeOK
<1>3. CASE UnprepareReplaceFails(h)
  BY <1>3 DEF UnprepareReplaceFails, TypeOK
<1>4. CASE UnprepareDevices(h)
  <2> DEFINE removed == IF isRecorded(cp[h], cur[h]) THEN RecordedDirs(cur[h]) ELSE {}
  <2>1. hostDir' = deleteClaimDirectories(removed) \/ hostDir' \in FailedRemovals(removed)
    BY <1>4 DEF UnprepareDevices
  <2> HIDE DEF removed
  <2>2. hostDir' \in [Paths -> Directories]
    BY <2>1, DeletedDirectories DEF TypeOK, Directories
  <2>3. cp' \in [Handlers -> [Claims -> Nat]]
    BY <1>4 DEF UnprepareDevices, TypeOK
  <2>4. faults' \in Nat /\ crashes' \in Nat
    BY <1>4 DEF UnprepareDevices, TypeOK
  <2>5. Continue(h, "rmdirs", "rmspec") /\ UNCHANGED <<checkpoint, roots, specs>>
    BY <1>4 DEF UnprepareDevices
  <2> QED BY <2>2, <2>3, <2>4, <2>5, TypeContinue DEF TypeOK, Directories, Inside
<1>5. CASE DeleteClaimSpecFile(h)
  BY <1>5, TypeContinue DEF DeleteClaimSpecFile, TypeOK, Inside
<1>6. CASE DeleteClaimSpecFileFails(h)
  BY <1>6 DEF DeleteClaimSpecFileFails, TypeOK, disk
<1> QED BY <1>1, <1>2, <1>3, <1>4, <1>5, <1>6 DEF Unprepare

LEMMA TypeStep ==
  ASSUME TypeOK, Working, [Next]_vars
  PROVE  TypeOK'
<1>1. ASSUME NEW h \in Handlers, Handle(h) PROVE TypeOK'
  <2>1. CASE BeginCall(h) \/ Lock(h) \/ Reply(h)
    BY <2>1, TypeOuter
  <2>2. CASE Prepare(h)
    <3>1. pc[h] \in Inside
      BY <2>2, PrepareInside
    <3> QED BY <2>2, <3>1, TypePrepare DEF Working
  <2>3. CASE Unprepare(h)
    <3>1. pc[h] \in Inside
      BY <2>3, UnprepareInside
    <3> QED BY <2>3, <3>1, TypeUnprepare DEF Working
  <2>4. CASE WriteCheckpoint(h) \/ WriteCheckpointFails(h)
    <3>1. PICK ok \in BOOLEAN : Return(h, "save", ok)
      BY <2>4 DEF WriteCheckpoint, WriteCheckpointFails
    <3>2. cur[h] \in Claims
      BY <3>1 DEF Return, Goto, Working, Inside
    <3>3. checkpoint' \in {checkpoint, cp[h]} /\ UNCHANGED <<hostDir, roots, specs>>
      BY <2>4 DEF WriteCheckpoint, WriteCheckpointFails
    <3>4. faults' \in Nat /\ crashes' \in Nat
      <4>1. NoFault \/ Fault("write")
        BY <2>4 DEF WriteCheckpoint, WriteCheckpointFails
      <4> QED BY <4>1 DEF NoFault, Fault, bounds, TypeOK
    <3> QED BY <3>1, <3>2, <3>3, <3>4, TypeReturn DEF TypeOK
  <2> QED BY <1>1, <2>1, <2>2, <2>3, <2>4 DEF Handle
<1>2. CASE UNCHANGED vars
  BY <1>2 DEF vars, disk, process, handler, bounds, TypeOK
<1> QED BY <1>1, <1>2, TypeKubelet, TypeProcesses DEF Next

(* The types are inductive together with: a handler that holds the mutex   *)
(* works on a claim.                                                       *)
LEMMA TypeInvariant == Spec => [](TypeOK /\ Working)
<1>1. Init => TypeOK /\ Working
  BY TypeInit DEF Init, Working, Inside
<1>2. TypeOK /\ Working /\ [Next]_vars => (TypeOK /\ Working)'
  BY TypeStep, WorkingStep
<1> QED BY <1>1, <1>2, PTL DEF Spec

(* The variables keep their types, whatever the instances, handlers,       *)
(* claims and failures.                                                    *)
THEOREM TypeCorrect == Spec => []TypeOK
BY TypeInvariant, PTL

-----------------------------------------------------------------------------
(* One entry per claim. *)

(* Needs no locks: each copy of the checkpoint in memory has at most one   *)
(* entry per claim, and none of the claim that is about to be added.       *)
CopiesUnique ==
    \A h \in Handlers :
        /\ \A c \in Claims : cp[h][c] <= 1
        /\ pc[h] = "dirs" => cp[h][cur[h]] = 0

(* What Return does to the control, whatever its result. *)
CallOver(h) ==
    /\ pc' = [pc EXCEPT ![h] = "serving"]
    /\ cur' = [cur EXCEPT ![h] = None]
    /\ cp' = [cp EXCEPT ![h] = EmptyCheckpoint]

(* Steps that leave the copies and the control of the handlers alone, or   *)
(* end a call.                                                             *)
LEMMA CopiesKept ==
  ASSUME TypeOK, Working, CopiesUnique
  PROVE  /\ UNCHANGED <<pc, cur, cp>> => CopiesUnique'
         /\ \A h \in Handlers : \A from, to :
                Goto(h, from, to) /\ to # "dirs" /\ UNCHANGED <<cur, cp>> => CopiesUnique'
         /\ \A h \in Handlers : CallOver(h) => CopiesUnique'
         /\ \A dead : Die(dead) => CopiesUnique'
<1> USE DEF TypeOK, CopiesUnique
<1>1. ASSUME UNCHANGED <<pc, cur, cp>> PROVE CopiesUnique'
  BY <1>1
<1>2. ASSUME NEW h \in Handlers, NEW from, NEW to, Goto(h, from, to), to # "dirs",
             UNCHANGED <<cur, cp>>
      PROVE  CopiesUnique'
  BY <1>2 DEF Goto
<1>3. ASSUME NEW h \in Handlers, CallOver(h) PROVE CopiesUnique'
  BY <1>3 DEF CallOver, EmptyCheckpoint
<1>4. ASSUME NEW dead, Die(dead) PROVE CopiesUnique'
  BY <1>4 DEF Die, EmptyCheckpoint
<1> QED BY <1>1, <1>2, <1>3, <1>4

LEMMA UniqueHandle ==
  ASSUME TypeOK, Working, CopiesUnique, NoDuplicateEntry, NEW h \in Handlers, Handle(h)
  PROVE  CopiesUnique' /\ NoDuplicateEntry'
<1>1. CASE BeginCall(h) \/ Reply(h)
  BY <1>1, CopiesKept DEF BeginCall, Reply, disk, NoDuplicateEntry
<1>2. CASE Lock(h)
  BY <1>2 DEF Lock, Goto, TypeOK, CopiesUnique, NoDuplicateEntry, disk
<1>3. CASE Prepare(h)
  <2>1. UNCHANGED checkpoint
    BY <1>3 DEF Prepare, PrepareRestored, PrepareReadCheckpoint, PrepareReadFails,
                PrepareDevices, PrepareDevicesFails, CreateClaimSpecFile,
                CreateClaimSpecFileFails, disk
  <2> SUFFICES CopiesUnique'
    BY <2>1 DEF NoDuplicateEntry
  <2>2. CASE PrepareReadCheckpoint(h)
    <3>1. checkpoint[cur[h]] = 0
      BY <2>2 DEF PrepareReadCheckpoint, PrepareReads, isRecorded, TypeOK, Working, Inside
    <3>2. cp' = [cp EXCEPT ![h] = checkpoint] /\ pc' = [pc EXCEPT ![h] = "dirs"] /\ cur' = cur
      BY <2>2 DEF PrepareReadCheckpoint, Continue, Goto
    <3> SUFFICES ASSUME NEW g \in Handlers
                 PROVE  /\ \A c \in Claims : cp'[g][c] <= 1
                        /\ pc'[g] = "dirs" => cp'[g][cur'[g]] = 0
      BY DEF CopiesUnique
    <3>3. CASE g = h
      BY <3>1, <3>2, <3>3 DEF TypeOK, NoDuplicateEntry
    <3>4. CASE g # h
      BY <3>2, <3>4 DEF TypeOK, CopiesUnique
    <3> QED BY <3>3, <3>4
  <2>3. ASSUME Continue(h, "dirs", "spec"),
               cp' = [cp EXCEPT ![h] = addClaimToCheckpoint(@, cur[h])]
        PROVE  CopiesUnique'
    <3>1. cp[h][cur[h]] = 0 /\ cur[h] \in Claims
      BY <2>3 DEF Continue, Goto, CopiesUnique, Working, Inside
    <3>2. pc' = [pc EXCEPT ![h] = "spec"] /\ cur' = cur
      BY <2>3 DEF Continue, Goto
    <3> QED BY <2>3, <3>1, <3>2 DEF TypeOK, CopiesUnique, addClaimToCheckpoint
  <2>4. CASE PrepareDevices(h)
    <3>1. CASE Return(h, "dirs", FALSE)
      BY <3>1, CopiesKept DEF Return, Goto, CallOver
    <3> QED BY <2>3, <2>4, <3>1 DEF PrepareDevices
  <2>5. CASE CreateClaimSpecFile(h)
    BY <2>5, CopiesKept DEF CreateClaimSpecFile, Continue
  <2>6. CASE PrepareRestored(h)
    BY <2>6, CopiesKept DEF PrepareRestored, Return, Goto, CallOver
  <2>7. CASE PrepareReadFails(h) \/ PrepareDevicesFails(h) \/ CreateClaimSpecFileFails(h)
    <3>1. CallOver(h)
      BY <2>7 DEF PrepareReadFails, PrepareDevicesFails, CreateClaimSpecFileFails, Return,
                  Goto, CallOver
    <3> QED BY <3>1, CopiesKept
  <2> QED BY <1>3, <2>2, <2>4, <2>5, <2>6, <2>7 DEF Prepare
<1>4. CASE Unprepare(h)
  <2>1. CASE UnprepareReadCheckpoint(h)
    BY <2>1 DEF UnprepareReadCheckpoint, Continue, Goto, disk, TypeOK, CopiesUnique,
                NoDuplicateEntry
  <2>2. CASE UnprepareReadFails(h)
    <3>1. CopiesUnique'
      BY <2>2, CopiesKept DEF UnprepareReadFails
    <3>2. checkpoint' = EmptyCheckpoint
      BY <2>2 DEF UnprepareReadFails
    <3> QED BY <3>1, <3>2 DEF EmptyCheckpoint, NoDuplicateEntry
  <2>3. CASE UnprepareReplaceFails(h)
    <3>1. CallOver(h) /\ checkpoint' \in {checkpoint, EmptyCheckpoint}
      BY <2>3 DEF UnprepareReplaceFails, Return, Goto, CallOver
    <3> QED BY <3>1, CopiesKept DEF EmptyCheckpoint, NoDuplicateEntry
  <2>4. CASE UnprepareDevices(h)
    <3>1. /\ cp' = [cp EXCEPT ![h] = removeClaimFromCheckpoint(@, cur[h])]
          /\ pc' = [pc EXCEPT ![h] = "rmspec"] /\ cur' = cur
          /\ UNCHANGED checkpoint
      BY <2>4 DEF UnprepareDevices, Continue, Goto
    <3> QED BY <3>1 DEF TypeOK, CopiesUnique, NoDuplicateEntry, removeClaimFromCheckpoint
  <2>5. CASE DeleteClaimSpecFile(h)
    BY <2>5, CopiesKept DEF DeleteClaimSpecFile, Continue, NoDuplicateEntry
  <2>6. CASE DeleteClaimSpecFileFails(h)
    BY <2>6, CopiesKept DEF DeleteClaimSpecFileFails, Return, Goto, CallOver, disk,
                            NoDuplicateEntry
  <2> QED BY <1>4, <2>1, <2>2, <2>3, <2>4, <2>5, <2>6 DEF Unprepare
<1>5. CASE WriteCheckpoint(h) \/ WriteCheckpointFails(h)
  <2>1. CopiesUnique'
    BY <1>5, CopiesKept DEF WriteCheckpoint, WriteCheckpointFails, Return, Goto, CallOver
  <2>2. checkpoint' \in {checkpoint, cp[h]}
    BY <1>5 DEF WriteCheckpoint, WriteCheckpointFails
  <2> QED BY <2>1, <2>2 DEF CopiesUnique, NoDuplicateEntry
<1> QED BY <1>1, <1>2, <1>3, <1>4, <1>5 DEF Handle

(* A claim has at most one entry in the checkpoint: isRecorded is asked    *)
(* of the same copy that is written at the end, with nothing added in      *)
(* between but this claim.                                                 *)
THEOREM NoDuplicates == Spec => []NoDuplicateEntry
<1> DEFINE IInv == CopiesUnique /\ NoDuplicateEntry
<1>1. Init => IInv
  BY DEF Init, CopiesUnique, NoDuplicateEntry, EmptyCheckpoint
<1>2. TypeOK /\ Working /\ IInv /\ [Next]_vars => IInv'
  <2> SUFFICES ASSUME TypeOK, Working, CopiesUnique, NoDuplicateEntry, [Next]_vars
               PROVE  CopiesUnique' /\ NoDuplicateEntry'
    OBVIOUS
  <2>1. CASE Kubelet \/ Processes
    <3>1. CopiesUnique'
      BY <2>1, CopiesKept, OtherMoves
    <3>2. UNCHANGED checkpoint
      BY <2>1 DEF Kubelet, PodAdded, PodRemoved, KubeletRestarts, PrepareRequest,
                  UnprepareRequest, Request, GiveUp, Processes, Start, Shutdown, Crash,
                  Reboot, disk
    <3> QED BY <3>1, <3>2 DEF NoDuplicateEntry
  <2>2. CASE UNCHANGED vars
    BY <2>2, CopiesKept DEF vars, disk, handler, NoDuplicateEntry
  <2> QED BY <2>1, <2>2, UniqueHandle DEF Next
<1>3. IInv => NoDuplicateEntry
  OBVIOUS
<1> HIDE DEF IInv
<1> QED BY <1>1, <1>2, <1>3, TypeInvariant, PTL DEF Spec

-----------------------------------------------------------------------------
(* Locks: one handler at a time is between readCheckpoint and the return.  *)

MutexHeld == \A h \in Handlers : pc[h] \in Inside => mutex[InstanceOf[h]] = h

SerialHeld ==
    Serialize => \A h \in Handlers : pc[h] \in Inside \cup {"serving"} => serial = h

Locks == MutexHeld /\ SerialHeld

(* The helper runs one call at a time, or there is one instance only. *)
OneAtATime ==
    Serialize \/ \A g, h \in Handlers : InstanceOf[g] = InstanceOf[h]

LEMMA MutualExclusion ==
  ASSUME Locks, OneAtATime, NEW g \in Handlers, NEW h \in Handlers,
         pc[g] \in Inside, pc[h] \in Inside
  PROVE  g = h
<1>1. CASE Serialize
  BY <1>1 DEF Locks, SerialHeld
<1>2. CASE InstanceOf[g] = InstanceOf[h]
  BY <1>2 DEF Locks, MutexHeld
<1> QED BY <1>1, <1>2 DEF OneAtATime

LEMMA LocksKept ==
  ASSUME TypeOK, Locks
  PROVE  /\ UNCHANGED <<mutex, serial, pc>> => Locks'
         /\ \A h \in Handlers : Goto(h, "idle", "called") /\ UNCHANGED <<mutex, serial>> => Locks'
         /\ \A dead : Die(dead) => Locks'
<1> USE HandlersAssumption DEF TypeOK, Locks, MutexHeld, SerialHeld, Inside
<1>1. ASSUME UNCHANGED <<mutex, serial, pc>> PROVE Locks'
  BY <1>1
<1>2. ASSUME NEW h \in Handlers, Goto(h, "idle", "called"), UNCHANGED <<mutex, serial>>
      PROVE  Locks'
  BY <1>2 DEF Goto
<1>3. ASSUME NEW dead, Die(dead) PROVE Locks'
  BY <1>3 DEF Die
<1> QED BY <1>1, <1>2, <1>3

LEMMA LocksHandle ==
  ASSUME TypeOK, Locks, NEW h \in Handlers, Handle(h)
  PROVE  Locks'
<1> USE HandlersAssumption DEF TypeOK, Locks, MutexHeld, SerialHeld, Inside
<1>1. CASE BeginCall(h)
  BY <1>1 DEF BeginCall, SerialFree, Goto
<1>2. CASE Lock(h)
  BY <1>2 DEF Lock, Unlocked, Goto
<1>3. CASE Reply(h)
  BY <1>3 DEF Reply, Goto
<1>4. ASSUME NEW from \in Inside, NEW to \in Inside, Continue(h, from, to) PROVE Locks'
  BY <1>4 DEF Continue, Goto, process
<1>5. ASSUME NEW from \in Inside, NEW ok \in BOOLEAN, Return(h, from, ok) PROVE Locks'
  BY <1>5 DEF Return, Goto
<1>6. CASE Die({InstanceOf[h]})
  BY <1>6, LocksKept
<1> HIDE HandlersAssumption DEF TypeOK, Locks, MutexHeld, SerialHeld, Inside
<1> QED BY <1>1, <1>2, <1>3, <1>4, <1>5, <1>6, HandlerMoves

LEMMA LocksInvariant == Spec => []Locks
<1>1. Init => Locks
  BY DEF Init, Locks, MutexHeld, SerialHeld, Inside
<1>2. TypeOK /\ Locks /\ [Next]_vars => Locks'
  <2> SUFFICES ASSUME TypeOK, Locks, [Next]_vars PROVE Locks'
    OBVIOUS
  <2>1. CASE Kubelet \/ Processes
    BY <2>1, LocksKept, OtherMoves
  <2>2. CASE UNCHANGED vars
    BY <2>2, LocksKept DEF vars, process, handler
  <2> QED BY <2>1, <2>2, LocksHandle DEF Next
<1> QED BY <1>1, <1>2, TypeInvariant, PTL DEF Spec

-----------------------------------------------------------------------------
(* Nobody waits for a lock that was left behind. *)

HeldByWorkers ==
    /\ \A i \in Instances : mutex[i] # None => InstanceOf[mutex[i]] = i /\ pc[mutex[i]] \in Inside
    /\ serial # None => pc[serial] \in Inside \cup {"serving"}

LEMMA WorkersKept ==
  ASSUME TypeOK, HeldByWorkers
  PROVE  /\ UNCHANGED <<mutex, serial, pc>> => HeldByWorkers'
         /\ \A h \in Handlers :
                Goto(h, "idle", "called") /\ UNCHANGED <<mutex, serial>> => HeldByWorkers'
         /\ \A dead : Die(dead) => HeldByWorkers'
<1> USE HandlersAssumption, ValuesAssumption DEF TypeOK, HeldByWorkers, Inside
<1>1. ASSUME UNCHANGED <<mutex, serial, pc>> PROVE HeldByWorkers'
  BY <1>1
<1>2. ASSUME NEW h \in Handlers, Goto(h, "idle", "called"), UNCHANGED <<mutex, serial>>
      PROVE  HeldByWorkers'
  BY <1>2 DEF Goto
<1>3. ASSUME NEW dead, Die(dead) PROVE HeldByWorkers'
  BY <1>3 DEF Die
<1> QED BY <1>1, <1>2, <1>3

LEMMA WorkersHandle ==
  ASSUME TypeOK, Locks, HeldByWorkers, NEW h \in Handlers, Handle(h)
  PROVE  HeldByWorkers'
<1> USE HandlersAssumption, ValuesAssumption
    DEF TypeOK, HeldByWorkers, Inside
<1>1. CASE BeginCall(h)
  BY <1>1 DEF BeginCall, SerialFree, Goto
<1>2. CASE Lock(h)
  BY <1>2 DEF Lock, Unlocked, Goto
<1>3. CASE Reply(h)
  BY <1>3 DEF Reply, Goto
<1>4. ASSUME NEW from \in Inside, NEW to \in Inside, Continue(h, from, to) PROVE HeldByWorkers'
  BY <1>4 DEF Continue, Goto, process
<1>5. ASSUME NEW from \in Inside, NEW ok \in BOOLEAN, Return(h, from, ok) PROVE HeldByWorkers'
  BY <1>5 DEF Return, Goto
<1>6. CASE Die({InstanceOf[h]})
  BY <1>6, WorkersKept
<1> HIDE HandlersAssumption, ValuesAssumption DEF TypeOK, HeldByWorkers, Inside
<1> QED BY <1>1, <1>2, <1>3, <1>4, <1>5, <1>6, HandlerMoves

(* No lock survives the call that took it: not an error on any path of     *)
(* Prepare or Unprepare, not a call that was given up, not a process that  *)
(* died; and the two locks are never waited for in a circle.               *)
THEOREM LocksAreReleased == Spec => []NobodyLockedOut
<1>1. Init => HeldByWorkers
  BY DEF Init, HeldByWorkers
<1>2. TypeOK /\ Locks /\ HeldByWorkers /\ [Next]_vars => HeldByWorkers'
  <2> SUFFICES ASSUME TypeOK, Locks, HeldByWorkers, [Next]_vars PROVE HeldByWorkers'
    OBVIOUS
  <2>1. CASE Kubelet \/ Processes
    BY <2>1, WorkersKept, OtherMoves
  <2>2. CASE UNCHANGED vars
    BY <2>2, WorkersKept DEF vars, process, handler
  <2> QED BY <2>1, <2>2, WorkersHandle DEF Next
<1>3. TypeOK /\ Locks /\ HeldByWorkers => NobodyLockedOut
  <2> SUFFICES ASSUME TypeOK, Locks, HeldByWorkers, NEW h \in Handlers
               PROVE  /\ pc[h] = "called" =>
                             SerialFree \/ pc[serial] \in Inside \cup {"serving"}
                      /\ pc[h] = "serving" =>
                             LET i == InstanceOf[h] IN
                             Unlocked(i) \/ ( ~Serialize /\ InstanceOf[mutex[i]] = i
                                             /\ pc[mutex[i]] \in Inside )
    BY DEF NobodyLockedOut
  <2>1. pc[h] = "called" => SerialFree \/ pc[serial] \in Inside \cup {"serving"}
    BY DEF HeldByWorkers, SerialFree
  <2>2. ASSUME pc[h] = "serving", mutex[InstanceOf[h]] # None
        PROVE  /\ ~Serialize
               /\ InstanceOf[mutex[InstanceOf[h]]] = InstanceOf[h]
               /\ pc[mutex[InstanceOf[h]]] \in Inside
    <3> DEFINE g == mutex[InstanceOf[h]]
    <3>1. InstanceOf[h] \in Instances
      BY HandlersAssumption
    <3>2. g \in Handlers /\ InstanceOf[g] = InstanceOf[h] /\ pc[g] \in Inside
      BY <2>2, <3>1 DEF TypeOK, HeldByWorkers
    <3>3. Serialize => serial = g /\ serial = h
      BY <2>2, <3>2 DEF Locks, SerialHeld
    <3> QED BY <2>2, <3>2, <3>3 DEF Inside
  <2> QED BY <2>1, <2>2 DEF Unlocked
<1> QED BY <1>1, <1>2, <1>3, TypeInvariant, LocksInvariant, PTL DEF Spec

-----------------------------------------------------------------------------
(* No call changes another claim's entry. *)

(* The copy in memory differs from the file at most in the claim at hand. *)
FreshCopy ==
    \A h \in Handlers : pc[h] \in Inside \ {"read"} =>
        \A c \in Claims \ {cur[h]} : cp[h][c] = checkpoint[c]

LEMMA FreshKept ==
  ASSUME TypeOK, FreshCopy, UNCHANGED checkpoint
  PROVE  /\ UNCHANGED <<pc, cur, cp>> => FreshCopy'
         /\ \A h \in Handlers : \A from, to :
                Goto(h, from, to) /\ to \notin Inside /\ UNCHANGED <<cur, cp>> => FreshCopy'
         /\ \A h \in Handlers, from \in Inside \ {"read"} : \A to :
                Goto(h, from, to) /\ UNCHANGED <<cur, cp>> => FreshCopy'
         /\ \A h \in Handlers : CallOver(h) => FreshCopy'
         /\ \A dead : Die(dead) => FreshCopy'
<1> USE DEF TypeOK, FreshCopy, Inside
<1>1. ASSUME UNCHANGED <<pc, cur, cp>> PROVE FreshCopy'
  BY <1>1
<1>2. ASSUME NEW h \in Handlers, NEW from, NEW to, Goto(h, from, to), to \notin Inside,
             UNCHANGED <<cur, cp>>
      PROVE  FreshCopy'
  BY <1>2 DEF Goto
<1>3. ASSUME NEW h \in Handlers, NEW from \in Inside \ {"read"}, NEW to, Goto(h, from, to),
             UNCHANGED <<cur, cp>>
      PROVE  FreshCopy'
  BY <1>3 DEF Goto
<1>4. ASSUME NEW h \in Handlers, CallOver(h) PROVE FreshCopy'
  BY <1>4 DEF CallOver
<1>5. ASSUME NEW dead, Die(dead) PROVE FreshCopy'
  BY <1>5 DEF Die
<1> QED BY <1>1, <1>2, <1>3, <1>4, <1>5

(* A handler that changes its copy in a step inside Prepare or Unprepare   *)
(* changes the entry of its claim, or has just read the file.              *)
LEMMA FreshChanged ==
  ASSUME TypeOK, FreshCopy, UNCHANGED checkpoint, NEW h \in Handlers, NEW k, NEW to,
         pc' = [pc EXCEPT ![h] = to], cur' = cur, cp' = [cp EXCEPT ![h] = k],
         \A c \in Claims \ {cur[h]} : k[c] = checkpoint[c]
  PROVE  FreshCopy'
<1> SUFFICES ASSUME NEW g \in Handlers, pc'[g] \in Inside \ {"read"},
                    NEW c \in Claims \ {cur[g]}
             PROVE  cp'[g][c] = checkpoint[c]
  BY DEF FreshCopy
<1>1. CASE g = h
  BY <1>1 DEF TypeOK
<1>2. CASE g # h
  BY <1>2 DEF TypeOK, FreshCopy
<1> QED BY <1>1, <1>2

LEMMA FreshHandle ==
  ASSUME TypeOK, Working, Locks, FreshCopy, OneAtATime, NEW h \in Handlers, Handle(h)
  PROVE  FreshCopy'
<1>0. ASSUME pc[h] \in Inside, CallOver(h) \/ Die({InstanceOf[h]}) PROVE FreshCopy'
  <2>1. \A g \in Handlers \ {h} : pc[g] \notin Inside
    BY <1>0, MutualExclusion
  <2>2. CASE CallOver(h)
    BY <2>1, <2>2 DEF CallOver, TypeOK, FreshCopy, Inside
  <2>3. CASE Die({InstanceOf[h]})
    BY <2>1, <2>3 DEF Die, TypeOK, FreshCopy, Inside
  <2> QED BY <1>0, <2>2, <2>3
<1>1. CASE BeginCall(h) \/ Reply(h)
  BY <1>1, FreshKept DEF BeginCall, Reply, Inside, disk
<1>2. CASE Lock(h)
  BY <1>2 DEF Lock, Goto, TypeOK, FreshCopy, disk
<1>3. CASE Prepare(h)
  <2>1. UNCHANGED checkpoint
    BY <1>3 DEF Prepare, PrepareRestored, PrepareReadCheckpoint, PrepareReadFails,
                PrepareDevices, PrepareDevicesFails, CreateClaimSpecFile,
                CreateClaimSpecFileFails, disk
  <2>2. CASE PrepareReadCheckpoint(h)
    BY <2>1, <2>2, FreshChanged DEF PrepareReadCheckpoint, Continue, Goto
  <2>3. CASE PrepareDevices(h)
    <3>1. CASE Return(h, "dirs", FALSE)
      BY <2>1, <3>1, FreshKept DEF Return, Goto, CallOver
    <3>2. CASE Continue(h, "dirs", "spec") /\ cp' = [cp EXCEPT ![h] = addClaimToCheckpoint(@, cur[h])]
      <4> DEFINE k == addClaimToCheckpoint(cp[h], cur[h])
      <4>1. \A c \in Claims \ {cur[h]} : k[c] = checkpoint[c]
        BY <3>2 DEF Continue, Goto, TypeOK, FreshCopy, Inside, addClaimToCheckpoint
      <4>2. pc' = [pc EXCEPT ![h] = "spec"] /\ cur' = cur /\ cp' = [cp EXCEPT ![h] = k]
        BY <3>2 DEF Continue, Goto, TypeOK
      <4> HIDE DEF k
      <4> QED BY <2>1, <4>1, <4>2, FreshChanged
    <3> QED BY <2>3, <3>1, <3>2 DEF PrepareDevices
  <2>4. CASE CreateClaimSpecFile(h)
    BY <2>1, <2>4, FreshKept DEF CreateClaimSpecFile, Continue, Inside
  <2>5. CASE PrepareRestored(h)
    BY <2>1, <2>5, FreshKept DEF PrepareRestored, Return, Goto, CallOver
  <2>6. CASE PrepareReadFails(h) \/ PrepareDevicesFails(h) \/ CreateClaimSpecFileFails(h)
    <3>1. CallOver(h)
      BY <2>6 DEF PrepareReadFails, PrepareDevicesFails, CreateClaimSpecFileFails, Return,
                  Goto, CallOver
    <3> QED BY <2>1, <3>1, FreshKept
  <2> QED BY <1>3, <2>2, <2>3, <2>4, <2>5, <2>6 DEF Prepare
<1>4. CASE Unprepare(h)
  <2>1. CASE UnprepareReadCheckpoint(h)
    BY <2>1, FreshChanged DEF UnprepareReadCheckpoint, Continue, Goto, disk
  <2>2. CASE UnprepareReadFails(h) \/ UnprepareReplaceFails(h)
    <3>1. pc[h] \in Inside /\ (CallOver(h) \/ Die({InstanceOf[h]}))
      BY <2>2 DEF UnprepareReadFails, UnprepareReplaceFails, UnprepareReads, Return, Goto,
                  CallOver, Inside
    <3> QED BY <1>0, <3>1
  <2>3. CASE UnprepareDevices(h)
    <3> DEFINE k == removeClaimFromCheckpoint(cp[h], cur[h])
    <3>1. \A c \in Claims \ {cur[h]} : k[c] = checkpoint[c]
      BY <2>3 DEF UnprepareDevices, TypeOK, FreshCopy, Inside, removeClaimFromCheckpoint
    <3>2. /\ pc' = [pc EXCEPT ![h] = "rmspec"] /\ cur' = cur /\ cp' = [cp EXCEPT ![h] = k]
          /\ UNCHANGED checkpoint
      BY <2>3 DEF UnprepareDevices, Continue, Goto, TypeOK
    <3> HIDE DEF k
    <3> QED BY <3>1, <3>2, FreshChanged
  <2>4. CASE DeleteClaimSpecFile(h)
    BY <2>4, FreshKept DEF DeleteClaimSpecFile, Continue, Inside
  <2>5. CASE DeleteClaimSpecFileFails(h)
    BY <2>5, FreshKept DEF DeleteClaimSpecFileFails, Return, Goto, CallOver, disk
  <2> QED BY <1>4, <2>1, <2>2, <2>3, <2>4, <2>5 DEF Unprepare
<1>5. CASE WriteCheckpoint(h) \/ WriteCheckpointFails(h)
  <2>1. pc[h] \in Inside /\ CallOver(h)
    BY <1>5 DEF WriteCheckpoint, WriteCheckpointFails, Return, Goto, CallOver, Inside
  <2> QED BY <1>0, <2>1
<1> QED BY <1>1, <1>2, <1>3, <1>4, <1>5 DEF Handle

LEMMA FreshInvariant ==
  ASSUME OneAtATime
  PROVE  Spec => []FreshCopy
<1>1. Init => FreshCopy
  BY DEF Init, FreshCopy, Inside
<1>2. TypeOK /\ Working /\ Locks /\ FreshCopy /\ [Next]_vars => FreshCopy'
  <2> SUFFICES ASSUME TypeOK, Working, Locks, FreshCopy, [Next]_vars PROVE FreshCopy'
    OBVIOUS
  <2>1. CASE Kubelet \/ Processes
    <3>1. UNCHANGED checkpoint
      BY <2>1 DEF Kubelet, PodAdded, PodRemoved, KubeletRestarts, PrepareRequest,
                  UnprepareRequest, Request, GiveUp, Processes, Start, Shutdown, Crash,
                  Reboot, disk
    <3>2. "called" \notin Inside
      BY DEF Inside
    <3> QED BY <2>1, <3>1, <3>2, FreshKept, OtherMoves
  <2>2. CASE UNCHANGED vars
    BY <2>2, FreshKept DEF vars, disk, handler
  <2> QED BY <2>1, <2>2, FreshHandle DEF Next
<1> QED BY <1>1, <1>2, TypeInvariant, LocksInvariant, PTL DEF Spec

(* If the helper runs one call at a time or there is one instance, and the *)
(* checkpoint can be read, no call loses or changes the entry of a claim   *)
(* that it does not work on, although each one rewrites the whole file.    *)
THEOREM EntriesAreKept ==
  ASSUME OneAtATime, "read" \notin Faults
  PROVE  Spec => OnlyOwnEntry
<1> DEFINE Step == \A c \in Claims : checkpoint'[c] # checkpoint[c]
                       => \E h \in Handlers : pc[h] = "save" /\ cur[h] = c
<1>1. TypeOK /\ FreshCopy /\ [Next]_vars => [Step]_vars
  <2> SUFFICES ASSUME TypeOK, FreshCopy, Next, NEW c \in Claims,
                      checkpoint'[c] # checkpoint[c]
               PROVE  \E h \in Handlers : pc[h] = "save" /\ cur[h] = c
    OBVIOUS
  <2>1. PICK h \in Handlers : checkpoint' # checkpoint /\ Handle(h)
    BY DEF Next, Kubelet, PodAdded, PodRemoved, KubeletRestarts, PrepareRequest,
           UnprepareRequest, Request, GiveUp, Processes, Start, Shutdown, Crash, Reboot, disk
  <2>2. WriteCheckpoint(h) \/ WriteCheckpointFails(h)
    BY <2>1 DEF Handle, BeginCall, Lock, Reply, Prepare, PrepareRestored,
                PrepareReadCheckpoint, PrepareReadFails, PrepareDevices,
                PrepareDevicesFails, CreateClaimSpecFile, CreateClaimSpecFileFails,
                Unprepare, UnprepareReadCheckpoint, UnprepareReadFails,
                UnprepareReplaceFails, UnprepareDevices, DeleteClaimSpecFile,
                DeleteClaimSpecFileFails, Fault, disk
  <2>3. pc[h] = "save" /\ checkpoint' = cp[h]
    BY <2>1, <2>2 DEF WriteCheckpoint, WriteCheckpointFails, Return, Goto
  <2>4. cur[h] = c
    BY <2>3 DEF FreshCopy, Inside
  <2> QED BY <2>3, <2>4
<1> QED BY <1>1, TypeInvariant, FreshInvariant, PTL DEF Spec, OnlyOwnEntry

-----------------------------------------------------------------------------
(* What Unprepare undoes. *)

(* The directories that ApplyConfig mounts are among those that the entry  *)
(* of the checkpoint leads to.                                             *)
LEMMA MountedAreRecorded ==
  ASSUME NEW c \in Claims, ~Homonyms(c)
  PROVE  MountedDirs(c) \subseteq RecordedDirs(c)
<1> SUFFICES ASSUME NEW k \in OwnResults(c)
             PROVE  ResultDir(c, k) \in RecordedDirs(c)
  BY DEF MountedDirs
<1> DEFINE device == Results(c)[k].device
           T == {j \in 1 .. Len(Results(c)) : Results(c)[j].device = device}
<1>1. k \in T /\ T \subseteq 1 .. Len(Results(c)) /\ Len(Results(c)) \in Nat
  BY ResultOfClaim
<1>2. device \in Devices(c) /\ DeviceRequests(c)[device] = Results(c)[Max(T)].request
  BY <1>1 DEF Devices, DeviceRequests
<1>3. Max(T) \in T
  <2> HIDE DEF T
  <2> QED BY <1>1, MaxOfSet
<1>4. Max(T) \in DOMAIN Results(c) /\ Results(c)[k].device = Results(c)[Max(T)].device
  <2>1. DOMAIN Results(c) = 1 .. Len(Results(c))
    BY ClaimAssumption DEF Results
  <2>2. \A j \in T : j \in 1 .. Len(Results(c)) /\ Results(c)[j].device = device
    OBVIOUS
  <2> HIDE DEF T
  <2> QED BY <1>3, <2>1, <2>2
<1>5. Results(c)[k].request = Results(c)[Max(T)].request
  <2> HIDE DEF T
  <2> QED BY <1>4 DEF Homonyms
<1> QED BY <1>2, <1>5 DEF RecordedDirs, ResultDir

Cleared(h) ==
    "remove" \notin Faults /\ ~Homonyms(cur[h]) /\ checkpoint[cur[h]] > 0 =>
        \A p \in MountedDirs(cur[h]) : hostDir[p] = NoDir

(* How far Unprepare has come: the entry by which it decides whether there *)
(* are directories is the one of the file, and once it is past them they   *)
(* are gone.                                                               *)
UndoneSoFar(h) ==
    /\ pc[h] \in {"dirs", "spec"} => call[h].op = "prepare"
    /\ pc[h] = "rmdirs" => cp[h] = checkpoint
    /\ pc[h] = "rmspec" => Cleared(h)
    /\ pc[h] = "save" /\ call[h].op = "unprepare" => Cleared(h)

Undone == \A h \in Handlers : UndoneSoFar(h)

(* Steps after which a handler is not in Prepare or Unprepare, or where it *)
(* was, with the same request and the same disk.                           *)
LEMMA UndoneElsewhere ==
  ASSUME Undone,
         \A h \in Handlers :
             \/ pc'[h] \notin Inside \ {"read"}
             \/ /\ pc'[h] = pc[h] /\ call'[h].op = call[h].op
                /\ UNCHANGED <<checkpoint, hostDir>>
                /\ cur'[h] = cur[h] /\ cp'[h] = cp[h]
  PROVE  Undone'
BY DEF Undone, UndoneSoFar, Cleared, Inside

LEMMA UndoneOther ==
  ASSUME TypeOK, Undone, Kubelet \/ Processes \/ UNCHANGED vars
  PROVE  Undone'
<1>1. CASE Kubelet
  <2>1. UNCHANGED <<checkpoint, hostDir, cur, cp>>
    BY <1>1 DEF Kubelet, PodAdded, PodRemoved, KubeletRestarts, PrepareRequest,
                UnprepareRequest, Request, GiveUp, disk, handler
  <2>2. \A h \in Handlers : \/ pc'[h] = "called"
                            \/ pc'[h] = pc[h] /\ call'[h].op = call[h].op
    <3>1. \A h \in Handlers : [call[h] EXCEPT !.live = FALSE].op = call[h].op
      BY DEF TypeOK
    <3>2. CASE KubeletRestarts
      BY <3>1, <3>2 DEF KubeletRestarts
    <3>3. CASE \E g \in Handlers : GiveUp(g)
      <4>1. PICK g \in Handlers : /\ call' = [call EXCEPT ![g] = [call[g] EXCEPT !.live = FALSE]]
                                 /\ pc' = pc
        BY <3>3 DEF GiveUp
      <4> QED BY <3>1, <4>1 DEF TypeOK
    <3>4. CASE \E c \in Claims : PodAdded(c) \/ PodRemoved(c)
      BY <3>4 DEF PodAdded, PodRemoved, handler
    <3>5. CASE \E g \in Handlers, batch \in SUBSET Claims :
                   PrepareRequest(g, batch) \/ UnprepareRequest(g, batch)
      BY <3>5 DEF PrepareRequest, UnprepareRequest, Request, Goto, TypeOK
    <3> QED BY <1>1, <3>2, <3>3, <3>4, <3>5 DEF Kubelet
  <2>3. "called" \notin Inside
    BY DEF Inside
  <2> QED BY <2>1, <2>2, <2>3, UndoneElsewhere
<1>2. CASE Processes
  <2>1. CASE \E i \in Instances : Start(i)
    BY <2>1, UndoneElsewhere DEF Start, handler
  <2>2. CASE \E i \in Instances : Shutdown(i) \/ Crash(i)
    <3>1. PICK i \in Instances : Die({i}) /\ UNCHANGED disk
      BY <2>2 DEF Shutdown, Crash
    <3> QED BY <3>1, UndoneElsewhere DEF Die, disk, Inside
  <2>3. CASE Reboot
    <3>1. \A h \in Handlers : pc'[h] = "idle"
      BY <2>3, HandlersAssumption DEF Reboot, Die
    <3> QED BY <3>1, UndoneElsewhere DEF Inside
  <2> QED BY <1>2, <2>1, <2>2, <2>3 DEF Processes
<1>3. CASE UNCHANGED vars
  BY <1>3, UndoneElsewhere DEF vars, disk, handler
<1> QED BY <1>1, <1>2, <1>3

(* A handler past readCheckpoint moves on: the others are outside.         *)
LEMMA UndoneInside ==
  ASSUME TypeOK, Locks, OneAtATime, Undone, NEW h \in Handlers, pc[h] \in Inside,
         \A g \in Handlers \ {h} : pc'[g] = pc[g] \/ pc'[g] = "idle",
         UndoneSoFar(h)'
  PROVE  Undone'
<1>1. \A g \in Handlers \ {h} : pc[g] \notin Inside
  BY MutualExclusion
<1> QED BY <1>1 DEF Undone, UndoneSoFar, Inside

LEMMA UndoneHandle ==
  ASSUME TypeOK, Working, Locks, OneAtATime, Undone, NEW h \in Handlers, Handle(h)
  PROVE  Undone'
<1>0. UndoneSoFar(h)
  BY DEF Undone
<1>1. CASE BeginCall(h) \/ Lock(h) \/ Reply(h)
  <2>1. UNCHANGED <<checkpoint, hostDir, cp>>
    BY <1>1 DEF BeginCall, Lock, Reply, disk
  <2>2. \A g \in Handlers : \/ pc'[g] \in {"serving", "read", "idle"}
                            \/ /\ pc'[g] = pc[g] /\ call'[g] = call[g] /\ cur'[g] = cur[g]
    BY <1>1 DEF BeginCall, Lock, Reply, Goto, TypeOK
  <2> QED BY <2>1, <2>2, UndoneElsewhere DEF Inside
<1>2. ASSUME pc[h] \in Inside, CallOver(h) \/ Die({InstanceOf[h]}) PROVE Undone'
  <2>1. pc'[h] \in {"serving", "idle"}
    BY <1>2 DEF CallOver, Die, TypeOK
  <2>2. \A g \in Handlers \ {h} : pc'[g] = pc[g] \/ pc'[g] = "idle"
    BY <1>2 DEF CallOver, Die, TypeOK
  <2>3. UndoneSoFar(h)'
    BY <2>1 DEF UndoneSoFar
  <2> QED BY <1>2, <2>2, <2>3, UndoneInside
<1>3. ASSUME NEW from \in Inside, NEW to \in Inside, Continue(h, from, to), UndoneSoFar(h)'
      PROVE  Undone'
  <2>1. pc[h] \in Inside /\ \A g \in Handlers \ {h} : pc'[g] = pc[g]
    BY <1>3 DEF Continue, Goto, TypeOK
  <2> QED BY <1>3, <2>1, UndoneInside
<1>4. ASSUME NEW from \in Inside, NEW ok \in BOOLEAN, Return(h, from, ok) PROVE Undone'
  BY <1>2, <1>4 DEF Return, Goto, CallOver
<1>5. CASE Prepare(h)
  <2>1. CASE PrepareReadCheckpoint(h)
    BY <1>3, <2>1 DEF PrepareReadCheckpoint, PrepareReads, Continue, Goto, UndoneSoFar,
                      TypeOK, Inside
  <2>2. CASE PrepareDevices(h)
    <3>1. CASE Continue(h, "dirs", "spec")
      <4>1. UndoneSoFar(h)'
        BY <1>0, <3>1 DEF Continue, Goto, UndoneSoFar, TypeOK
      <4> QED BY <1>3, <3>1, <4>1 DEF Inside
    <3> QED BY <1>4, <2>2, <3>1 DEF PrepareDevices, Inside
  <2>3. CASE CreateClaimSpecFile(h)
    <3>1. UndoneSoFar(h)'
      BY <1>0, <2>3 DEF CreateClaimSpecFile, Continue, Goto, UndoneSoFar, TypeOK
    <3> QED BY <1>3, <2>3, <3>1 DEF CreateClaimSpecFile, Inside
  <2>4. CASE PrepareRestored(h)
    <3>1. computeDeviceConfig(allocatable[InstanceOf[h]], cur[h]) \in BOOLEAN
      BY DEF computeDeviceConfig
    <3> QED BY <1>4, <2>4, <3>1 DEF PrepareRestored, Inside
  <2>5. CASE PrepareReadFails(h) \/ PrepareDevicesFails(h) \/ CreateClaimSpecFileFails(h)
    BY <1>4, <2>5 DEF PrepareReadFails, PrepareDevicesFails, CreateClaimSpecFileFails, Inside
  <2> QED BY <1>5, <2>1, <2>2, <2>3, <2>4, <2>5 DEF Prepare
<1>6. CASE Unprepare(h)
  <2>1. CASE UnprepareReadCheckpoint(h)
    <3>1. UndoneSoFar(h)'
      BY <2>1 DEF UnprepareReadCheckpoint, Continue, Goto, UndoneSoFar, TypeOK, disk
    <3> QED BY <1>3, <2>1, <3>1 DEF UnprepareReadCheckpoint, Inside
  <2>2. CASE UnprepareReadFails(h) \/ UnprepareReplaceFails(h)
    BY <1>2, <1>4, <2>2 DEF UnprepareReadFails, UnprepareReplaceFails, UnprepareReads, Inside
  <2>3. CASE UnprepareDevices(h)
    <3> DEFINE c == cur[h]
    <3>1. c \in Claims /\ pc[h] = "rmdirs" /\ Continue(h, "rmdirs", "rmspec")
          /\ UNCHANGED checkpoint
      BY <2>3 DEF UnprepareDevices, Working, Inside, Goto
    <3>2. ASSUME "remove" \notin Faults, ~Homonyms(c), checkpoint[c] > 0,
                 NEW p \in MountedDirs(c)
          PROVE  hostDir'[p] = NoDir
      <4>1. isRecorded(cp[h], c)
        BY <1>0, <3>1, <3>2 DEF UndoneSoFar, isRecorded
      <4>2. hostDir' = deleteClaimDirectories(RecordedDirs(c))
        BY <2>3, <3>2, <4>1 DEF UnprepareDevices, Fault
      <4>3. p \in RecordedDirs(c)
        BY <3>1, <3>2, MountedAreRecorded
      <4>4. p \in Paths
        BY <3>1, ResultOfClaim DEF MountedDirs
      <4> QED BY <4>2, <4>3, <4>4 DEF deleteClaimDirectories
    <3>3. cur'[h] = c /\ pc'[h] = "rmspec"
      BY <3>1 DEF Continue, Goto, TypeOK
    <3>4. UndoneSoFar(h)'
      BY <3>1, <3>2, <3>3 DEF UndoneSoFar, Cleared
    <3> QED BY <1>3, <3>1, <3>4 DEF Inside
  <2>4. CASE DeleteClaimSpecFile(h)
    <3>1. UndoneSoFar(h)'
      BY <1>0, <2>4 DEF DeleteClaimSpecFile, Continue, Goto, UndoneSoFar, Cleared, TypeOK
    <3> QED BY <1>3, <2>4, <3>1 DEF DeleteClaimSpecFile, Inside
  <2>5. CASE DeleteClaimSpecFileFails(h)
    BY <1>4, <2>5 DEF DeleteClaimSpecFileFails, Inside
  <2> QED BY <1>6, <2>1, <2>2, <2>3, <2>4, <2>5 DEF Unprepare
<1>7. CASE WriteCheckpoint(h) \/ WriteCheckpointFails(h)
  BY <1>4, <1>7 DEF WriteCheckpoint, WriteCheckpointFails, Inside
<1> QED BY <1>1, <1>5, <1>6, <1>7 DEF Handle

(* If the helper runs one call at a time or there is one instance: when an *)
(* Unprepare drops the entry of a claim, the claim's directories are gone, *)
(* unless a removal failed or two devices of the claim have one name.      *)
(* Nothing is assumed of deadlines, reboots, crashes, other failures, or   *)
(* claims that share a directory.                                          *)
THEOREM EntryDroppedAfterRemoval ==
  ASSUME OneAtATime
  PROVE  Spec => RecordedIsUndone
<1> DEFINE Step ==
        \A h \in Handlers, c \in Claims :
           ( /\ pc[h] = "save" /\ call[h].op = "unprepare" /\ cur[h] = c
             /\ checkpoint[c] > 0 /\ checkpoint'[c] = 0
             /\ "remove" \notin Faults /\ ~Homonyms(c) )
           => \A p \in MountedDirs(c) : hostDir[p] = NoDir
<1>1. Init => Undone
  BY DEF Init, Undone, UndoneSoFar
<1>2. TypeOK /\ Working /\ Locks /\ Undone /\ [Next]_vars => Undone'
  BY UndoneOther, UndoneHandle DEF Next
<1>3. Undone /\ [Next]_vars => [Step]_vars
  BY DEF Undone, UndoneSoFar, Cleared
<1> QED BY <1>1, <1>2, <1>3, TypeInvariant, LocksInvariant, PTL DEF Spec, RecordedIsUndone
=============================================================================
