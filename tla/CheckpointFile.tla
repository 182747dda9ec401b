--------------------------- MODULE CheckpointFile ---------------------------
(***************************************************************************)
(* readCheckpoint and writeCheckpoint on a file system: a temporary file   *)
(* is created, encoded to, synced and renamed over the checkpoint.         *)
(*                                                                         *)
(* The functions take no lock, and threads of several processes may be     *)
(* inside; a process may die and the node may lose power between any two   *)
(* of their steps.                                                         *)
(*                                                                         *)
(* The file system is external: an unsynced file may hold anything after a *)
(* loss of power, and a rename may be undone by it until the directory was *)
(* written to the disk, which nobody asks for.                             *)
(***************************************************************************)
EXTENDS Naturals

CONSTANTS
    Instances,      \* processes
    Threads,        \* their threads
    InstanceOf,     \* [Threads -> Instances]
    Files,          \* inodes
    NoFile,         \* a name that does not exist
    Versions,       \* the Checkpoint objects
    EmptyCheckpoint,\* new(checkpointapi.Checkpoint)
    Faults,         \* the I/O operations that may fail
    MaxFaults,      \* bound on the failures of I/O operations
    MaxCrashes      \* bound on deaths of processes and losses of power

ASSUME ThreadsAssumption == InstanceOf \in [Threads -> Instances]

ASSUME FilesAssumption == NoFile \notin Files

(* "empty" and "torn" are contents that cannot be decoded. *)
ASSUME VersionsAssumption ==
    /\ EmptyCheckpoint \in Versions
    /\ {"empty", "torn", "none", "ok", "error"} \cap Versions = {}

VARIABLES
    path,           \* the file that the checkpoint's path names
    names,          \* what it may name after a loss of power
    temps,          \* the files that have a name tmp-checkpoint-*
    used,           \* the files that were ever created
    data,           \* contents of the files
    synced,         \* the files whose contents are on the disk
    pc,             \* where a thread is
    file,           \* the file it has open
    arg,            \* the Checkpoint it writes
    answer,         \* what its last call returned
    faults, crashes

disk   == <<path, names, temps, used, data, synced>>
thread == <<pc, file, arg, answer>>
vars   == <<disk, thread, faults, crashes>>

Contents == Versions \cup {"empty", "torn"}

TypeOK ==
    /\ path \in Files \cup {NoFile}
    /\ names \subseteq Files \cup {NoFile} /\ path \in names
    /\ temps \subseteq used /\ synced \subseteq used /\ used \subseteq Files
    /\ names \subseteq used \cup {NoFile}
    /\ data \in [Files -> Contents]
    /\ pc \in [Threads -> {"idle", "create", "encode", "sync", "rename", "close",
                           "open", "read"}]
    /\ file \in [Threads -> used \cup {NoFile}]
    /\ arg \in [Threads -> Versions]
    /\ answer \in [Threads -> Versions \cup {"none", "ok", "error"}]
    /\ faults \in Nat
    /\ crashes \in Nat

Init ==
    /\ path = NoFile
    /\ names = {NoFile}
    /\ temps = {}
    /\ used = {}
    /\ data = [f \in Files |-> "empty"]
    /\ synced = {}
    /\ pc = [t \in Threads |-> "idle"]
    /\ file = [t \in Threads |-> NoFile]
    /\ arg = [t \in Threads |-> EmptyCheckpoint]
    /\ answer = [t \in Threads |-> "none"]
    /\ faults = 0
    /\ crashes = 0

NoFault == UNCHANGED <<faults, crashes>>

Fault(kind) ==
    /\ kind \in Faults
    /\ faults < MaxFaults
    /\ faults' = faults + 1
    /\ UNCHANGED crashes

Goto(t, from, to) ==
    /\ pc[t] = from
    /\ pc' = [pc EXCEPT ![t] = to]

(* The function returns; the deferred Close of the file comes with it. *)
Return(t, from, result) ==
    /\ Goto(t, from, "idle")
    /\ file' = [file EXCEPT ![t] = NoFile]
    /\ arg' = [arg EXCEPT ![t] = EmptyCheckpoint]
    /\ answer' = [answer EXCEPT ![t] = result]

-----------------------------------------------------------------------------
(* writeCheckpoint. *)

CallWrite(t, v) ==
    /\ Goto(t, "idle", "create")
    /\ arg' = [arg EXCEPT ![t] = v]
    /\ answer' = [answer EXCEPT ![t] = "none"]
    /\ NoFault
    /\ UNCHANGED <<disk, file>>

(* A name that nobody else uses.  Mutant: the checkpoint is opened and     *)
(* truncated in place.                                                     *)
OpensInPlace(t) ==
    \E f \in IF path = NoFile THEN Files \ used ELSE {path} :
        /\ Goto(t, "create", "encode")
        /\ file' = [file EXCEPT ![t] = f]
        /\ used' = used \cup {f}
        /\ temps' = temps \cup {f}
        /\ data' = [data EXCEPT ![f] = "empty"]
        /\ synced' = synced \ {f}
        /\ NoFault
        /\ UNCHANGED <<path, names, arg, answer>>

CreateTemp(t) ==
    \E f \in Files \ used :
        /\ Goto(t, "create", "encode")
        /\ file' = [file EXCEPT ![t] = f]
        /\ used' = used \cup {f}
        /\ temps' = temps \cup {f}
        /\ NoFault
        /\ UNCHANGED <<path, names, data, synced, arg, answer>>

Encode(t) ==
    /\ Goto(t, "encode", "sync")
    /\ data' = [data EXCEPT ![file[t]] = arg[t]]
    /\ NoFault
    /\ UNCHANGED <<path, names, temps, used, synced, file, arg, answer>>

(* Mutant: the file is not synced. *)
SyncsNothing(t) ==
    /\ Goto(t, "sync", "rename")
    /\ NoFault
    /\ UNCHANGED <<disk, file, arg, answer>>

Sync(t) ==
    /\ Goto(t, "sync", "rename")
    /\ synced' = synced \cup {file[t]}
    /\ NoFault
    /\ UNCHANGED <<path, names, temps, used, data, file, arg, answer>>

Rename(t) ==
    /\ Goto(t, "rename", "close")
    /\ path' = file[t]
    /\ names' = names \cup {file[t]}
    /\ temps' = temps \ {file[t]}
    /\ NoFault
    /\ UNCHANGED <<used, data, synced, file, arg, answer>>

Close(t) ==
    /\ Return(t, "close", "ok")
    /\ NoFault
    /\ UNCHANGED disk

(* An error of Close counts if there was none before, and comes too late   *)
(* to undo the rename.  The temporary file is never removed.               *)
WriteFails(t) ==
    /\ \/ pc[t] = "create" /\ Fault("create") /\ UNCHANGED data
       \/ /\ pc[t] = "encode"
          /\ Fault("encode")
          /\ \E left \in {"empty", "torn", arg[t]} : data' = [data EXCEPT ![file[t]] = left]
       \/ pc[t] = "sync" /\ Fault("sync") /\ UNCHANGED data
       \/ pc[t] = "rename" /\ Fault("rename") /\ UNCHANGED data
       \/ pc[t] = "close" /\ Fault("close") /\ UNCHANGED data
    /\ Return(t, pc[t], "error")
    /\ UNCHANGED <<path, names, temps, used, synced>>

-----------------------------------------------------------------------------
(* readCheckpoint: os.ReadFile opens the file and reads it. *)

CallRead(t) ==
    /\ Goto(t, "idle", "open")
    /\ answer' = [answer EXCEPT ![t] = "none"]
    /\ NoFault
    /\ UNCHANGED <<disk, file, arg>>

Open(t) ==
    /\ Goto(t, "open", "read")
    /\ file' = [file EXCEPT ![t] = path]
    /\ NoFault
    /\ UNCHANGED <<disk, arg, answer>>

(* "If the path doesn't exist, returns an empty Checkpoint and no error."  *)
ContentOf(f) == IF f = NoFile THEN EmptyCheckpoint ELSE data[f]

(* The decoder accepts what the encoder wrote, and neither an empty nor a  *)
(* torn file.                                                              *)
Decode(content) == IF content \in Versions THEN content ELSE "error"

Read(t) ==
    /\ Return(t, "read", Decode(ContentOf(file[t])))
    /\ NoFault
    /\ UNCHANGED disk

ReadFails(t) ==
    /\ pc[t] \in {"open", "read"}
    /\ Return(t, pc[t], "error")
    /\ Fault("read")
    /\ UNCHANGED disk

-----------------------------------------------------------------------------
(* Deaths (external). *)

Die(dead) ==
    LET Reset(f, v) == [t \in Threads |-> IF InstanceOf[t] \in dead THEN v ELSE f[t]]
    IN  /\ crashes < MaxCrashes
        /\ crashes' = crashes + 1
        /\ pc' = Reset(pc, "idle")
        /\ file' = Reset(file, NoFile)
        /\ arg' = Reset(arg, EmptyCheckpoint)
        /\ answer' = Reset(answer, "none")
        /\ UNCHANGED faults

(* The kernel keeps what a dead process has written. *)
Crash(i) == Die({i}) /\ UNCHANGED disk

PowerLoss ==
    /\ Die(Instances)
    /\ path' \in names
    /\ names' = {path'}
    /\ data' \in {d \in [Files -> Contents] :
                     \A f \in Files : d[f] = data[f] \/ (f \notin synced /\ d[f] \in {"empty", "torn"})}
    /\ UNCHANGED <<temps, used, synced>>

(* The kernel writes the directory to the disk when it likes. *)
Writeback ==
    /\ names' = {path}
    /\ UNCHANGED <<path, temps, used, data, synced, thread, faults, crashes>>

-----------------------------------------------------------------------------

writeCheckpoint(t) ==
    CreateTemp(t) \/ Encode(t) \/ Sync(t) \/ Rename(t) \/ Close(t) \/ WriteFails(t)

readCheckpoint(t) == Open(t) \/ Read(t) \/ ReadFails(t)

Next ==
    \/ \E t \in Threads :
           \/ \E v \in Versions : CallWrite(t, v)
           \/ CallRead(t)
           \/ writeCheckpoint(t)
           \/ readCheckpoint(t)
    \/ \E i \in Instances : Crash(i)
    \/ PowerLoss
    \/ Writeback

Spec == Init /\ [][Next]_vars

-----------------------------------------------------------------------------
(* Properties. *)

(* Whenever a reader comes, whatever a loss of power brings back: the path *)
(* names no file, or a complete one that will stay complete.               *)
NeverTorn == \A f \in names : f # NoFile => f \in synced /\ data[f] \in Versions

(* "The file is overwritten if it already exists and is created if it does *)
(* not already exist", as a whole: with threads that race, calls that fail *)
(* half-way, deaths of processes and losses of power, the file is the      *)
(* register of CheckpointRegister.                                         *)
StageOf(place) ==
    CASE place \in {"create", "encode", "sync", "rename"} -> "writing"
      [] place = "close" -> "written"
      [] place = "open" -> "reading"
      [] OTHER -> place

Value == ContentOf(path)
Safe  == {ContentOf(f) : f \in names}
Stage == [t \in Threads |-> StageOf(pc[t])]
Arg   == [t \in Threads |-> IF pc[t] = "read" THEN ContentOf(file[t]) ELSE arg[t]]

Register == INSTANCE CheckpointRegister WITH
    value <- Value, safe <- Safe, stage <- Stage, arg <- Arg

ImplementsRegister == Register!Spec
=============================================================================
