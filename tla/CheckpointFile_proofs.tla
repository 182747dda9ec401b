------------------------ MODULE CheckpointFile_proofs ------------------------
(***************************************************************************)
(* The checkpoint file is never torn, and is a register, for any number of *)
(* threads, processes, files, failures, deaths and losses of power.        *)
(***************************************************************************)
EXTENDS CheckpointFile, TLAPS

Places == {"idle", "create", "encode", "sync", "rename", "close", "open", "read"}

(* A writer has a file of its own until it renames it. *)
OwnsTemp(t) == pc[t] \in {"encode", "sync", "rename"}

WriterOk(t) ==
    /\ OwnsTemp(t) => file[t] \in temps
    /\ pc[t] \in {"sync", "rename"} => data[file[t]] = arg[t]
    /\ pc[t] = "rename" => file[t] \in synced

(* What a reader has opened is complete, and no writer's. *)
Complete(f) == f # NoFile => f \in synced /\ data[f] \in Versions /\ f \notin temps

ReaderOk(t) ==
    /\ pc[t] = "read" => Complete(file[t])
    /\ pc[t] \in {"idle", "open", "read"} => arg[t] = EmptyCheckpoint

Sound ==
    /\ \A f \in names : Complete(f)
    /\ \A t \in Threads : WriterOk(t) /\ ReaderOk(t)
    /\ \A s, t \in Threads : s # t /\ OwnsTemp(s) /\ OwnsTemp(t) => file[s] # file[t]

Inv == TypeOK /\ Sound

(* A name leads to what it did before. *)
Kept(f) ==
    /\ data'[f] = data[f]
    /\ f \in synced => f \in synced'
    /\ f \notin temps => f \notin temps'

-----------------------------------------------------------------------------
(* The invariant. *)

LEMMA InvInit ==
  ASSUME Init
  PROVE  Inv
BY VersionsAssumption DEF Init, Inv, TypeOK, Sound, Complete, WriterOk, ReaderOk, OwnsTemp, Contents

(* The calls, and the steps that only read. *)
LEMMA QuietStep ==
  ASSUME Inv, NEW t \in Threads, UNCHANGED disk,
         \/ \E v \in Versions : CallWrite(t, v)
         \/ CallRead(t)
         \/ \E from \in Places, result \in Versions \cup {"ok", "error"} : Return(t, from, result),
         faults' \in Nat, crashes' \in Nat
  PROVE  Inv'
<1> USE DEF Inv, disk
<1>1. pc \in [Threads -> Places]
  BY DEF TypeOK, Places
<1>2. PICK to \in {"idle", "create", "open"} : pc' = [pc EXCEPT ![t] = to]
  BY DEF CallWrite, CallRead, Return, Goto
<1>3. /\ \A s \in Threads \ {t} : file'[s] = file[s] /\ arg'[s] = arg[s]
      /\ pc'[t] \in {"idle", "open"} => arg'[t] = EmptyCheckpoint
      /\ file' \in [Threads -> used \cup {NoFile}]
      /\ arg' \in [Threads -> Versions]
      /\ answer' \in [Threads -> Versions \cup {"none", "ok", "error"}]
  BY VersionsAssumption DEF CallWrite, CallRead, Return, Goto, TypeOK, Sound, ReaderOk
<1>4. TypeOK'
  BY <1>1, <1>2, <1>3 DEF TypeOK, Places
<1>5. \A s \in Threads : WriterOk(s)' /\ ReaderOk(s)'
  BY <1>1, <1>2, <1>3 DEF Sound, WriterOk, ReaderOk, OwnsTemp, Complete
<1>6. (\A f \in names : Complete(f))'
  BY DEF Sound, Complete
<1>7. (\A r, s \in Threads : r # s /\ OwnsTemp(r) /\ OwnsTemp(s) => file[r] # file[s])'
  BY <1>1, <1>2, <1>3 DEF Sound, OwnsTemp
<1> QED BY <1>4, <1>5, <1>6, <1>7 DEF Sound

LEMMA CreateTempStep ==
  ASSUME Inv, NEW t \in Threads, CreateTemp(t)
  PROVE  Inv'
<1> USE FilesAssumption DEF Inv, TypeOK
<1>1. PICK f \in Files \ used : /\ pc[t] = "create" /\ pc' = [pc EXCEPT ![t] = "encode"]
                                /\ file' = [file EXCEPT ![t] = f]
                                /\ used' = used \cup {f} /\ temps' = temps \cup {f}
                                /\ UNCHANGED <<path, names, data, synced, arg, answer, faults, crashes>>
  BY DEF CreateTemp, Goto, NoFault
<1>2. TypeOK'
  BY <1>1
<1>3. \A g \in names : Complete(g)'
  BY <1>1 DEF Sound, Complete
<1>4. \A s \in Threads : WriterOk(s)' /\ ReaderOk(s)'
  BY <1>1 DEF Sound, WriterOk, ReaderOk, OwnsTemp, Complete
<1>5. (\A r, s \in Threads : r # s /\ OwnsTemp(r) /\ OwnsTemp(s) => file[r] # file[s])'
  BY <1>1 DEF Sound, OwnsTemp, WriterOk
<1> QED BY <1>1, <1>2, <1>3, <1>4, <1>5 DEF Sound

(* A thread that writes to its own file, or fails to. *)
LEMMA OwnFileStep ==
  ASSUME Inv, NEW t \in Threads, OwnsTemp(t),
         NEW to \in {"sync", "rename", "idle"}, pc' = [pc EXCEPT ![t] = to],
         NEW left \in Contents, data' = [data EXCEPT ![file[t]] = left],
         NEW more \in SUBSET {file[t]}, synced' = synced \cup more,
         to \in {"sync", "rename"} => left = arg[t] /\ UNCHANGED <<file, arg>>,
         to = "rename" => more = {file[t]},
         to = "idle" => /\ file' = [file EXCEPT ![t] = NoFile]
                        /\ arg' = [arg EXCEPT ![t] = EmptyCheckpoint],
         answer' \in [Threads -> Versions \cup {"none", "ok", "error"}],
         UNCHANGED <<path, names, temps, used>>, faults' \in Nat, crashes' \in Nat
  PROVE  Inv'
<1> USE FilesAssumption, VersionsAssumption DEF Inv, TypeOK, Contents
<1>1. file[t] \in temps /\ file[t] \in used /\ file[t] \in Files
  BY DEF Sound, WriterOk
<1>2. \A f \in names : f # file[t]
  BY <1>1 DEF Sound, Complete
<1>3. ASSUME NEW s \in Threads, s # t PROVE pc[s] = "read" \/ OwnsTemp(s) => file[s] # file[t]
  <2>1. OwnsTemp(s) => file[s] # file[t]
    BY <1>3 DEF Sound
  <2>2. pc[s] = "read" => file[s] # file[t]
    <3>1. pc[s] = "read" => Complete(file[s])
      BY DEF Sound, ReaderOk
    <3> QED BY <1>1, <3>1 DEF Complete
  <2> QED BY <2>1, <2>2
<1>4. TypeOK'
  <2>1. data' \in [Files -> Contents] /\ synced' \subseteq used
    BY <1>1
  <2>2. file' \in [Threads -> used \cup {NoFile}] /\ arg' \in [Threads -> Versions]
    <3>1. CASE to = "idle"
      BY <3>1
    <3>2. CASE to \in {"sync", "rename"}
      BY <3>2
    <3> QED BY <3>1, <3>2
  <2>3. pc' \in [Threads -> Places]
    BY DEF Places
  <2> QED BY <2>1, <2>2, <2>3 DEF Places
<1>5. (\A f \in names : Complete(f))'
  BY <1>2 DEF Sound, Complete
<1>6. ASSUME NEW s \in Threads PROVE WriterOk(s)' /\ ReaderOk(s)'
  <2>1. CASE s = t
    BY <1>1, <2>1 DEF Sound, WriterOk, ReaderOk, OwnsTemp, Complete
  <2>2. CASE s # t
    <3>1. pc'[s] = pc[s] /\ file'[s] = file[s] /\ arg'[s] = arg[s]
      BY <2>2
    <3>2. WriterOk(s) /\ ReaderOk(s)
      BY DEF Sound
    <3>3. pc[s] = "read" \/ OwnsTemp(s) => data'[file[s]] = data[file[s]]
      BY <1>3, <2>2
    <3> QED BY <3>1, <3>2, <3>3 DEF WriterOk, ReaderOk, OwnsTemp, Complete
  <2> QED BY <2>1, <2>2
<1>7. (\A r, s \in Threads : r # s /\ OwnsTemp(r) /\ OwnsTemp(s) => file[r] # file[s])'
  BY DEF Sound, OwnsTemp
<1> QED BY <1>4, <1>5, <1>6, <1>7 DEF Sound

LEMMA RenameStep ==
  ASSUME Inv, NEW t \in Threads, Rename(t)
  PROVE  Inv'
<1> USE FilesAssumption, VersionsAssumption DEF Inv, TypeOK, Contents
<1>1. /\ pc[t] = "rename" /\ pc' = [pc EXCEPT ![t] = "close"]
      /\ path' = file[t] /\ names' = names \cup {file[t]} /\ temps' = temps \ {file[t]}
      /\ UNCHANGED <<used, data, synced, file, arg, answer, faults, crashes>>
  BY DEF Rename, Goto, NoFault
<1>2. OwnsTemp(t) /\ file[t] \in temps /\ file[t] \in synced /\ data[file[t]] = arg[t]
  BY <1>1 DEF OwnsTemp, Sound, WriterOk
<1>3. TypeOK'
  BY <1>1, <1>2
<1>4. (\A f \in names : Complete(f))'
  BY <1>1, <1>2 DEF Sound, Complete
<1>5. ASSUME NEW s \in Threads PROVE WriterOk(s)' /\ ReaderOk(s)'
  BY <1>1, <1>2 DEF Sound, WriterOk, ReaderOk, OwnsTemp, Complete
<1>6. (\A r, s \in Threads : r # s /\ OwnsTemp(r) /\ OwnsTemp(s) => file[r] # file[s])'
  BY <1>1 DEF Sound, OwnsTemp
<1> QED BY <1>3, <1>4, <1>5, <1>6 DEF Sound

LEMMA OpenStep ==
  ASSUME Inv, NEW t \in Threads, Open(t)
  PROVE  Inv'
<1> USE FilesAssumption, VersionsAssumption DEF Inv, TypeOK, Contents
<1>1. /\ pc[t] = "open" /\ pc' = [pc EXCEPT ![t] = "read"]
      /\ file' = [file EXCEPT ![t] = path]
      /\ UNCHANGED <<disk, arg, answer, faults, crashes>>
  BY DEF Open, Goto, NoFault
<1>2. TypeOK'
  BY <1>1 DEF disk
<1>3. ASSUME NEW s \in Threads PROVE WriterOk(s)' /\ ReaderOk(s)'
  BY <1>1 DEF Sound, WriterOk, ReaderOk, OwnsTemp, Complete, disk
<1>4. (\A f \in names : Complete(f))'
  BY <1>1 DEF Sound, Complete, disk
<1>5. (\A r, s \in Threads : r # s /\ OwnsTemp(r) /\ OwnsTemp(s) => file[r] # file[s])'
  BY <1>1 DEF Sound, OwnsTemp
<1> QED BY <1>2, <1>3, <1>4, <1>5 DEF Sound

LEMMA WriteFailsStep ==
  ASSUME Inv, NEW t \in Threads, WriteFails(t)
  PROVE  Inv'
<1>1. /\ faults' \in Nat /\ crashes' \in Nat
      /\ Return(t, pc[t], "error")
      /\ UNCHANGED <<path, names, temps, used, synced>>
      /\ pc[t] \in Places
  BY DEF WriteFails, Fault, Inv, TypeOK, Places
<1>2. CASE UNCHANGED data
  BY <1>1, <1>2, QuietStep DEF disk
<1>3. CASE pc[t] = "encode" /\ ~UNCHANGED data
  <2>1. PICK left \in {"empty", "torn", arg[t]} : data' = [data EXCEPT ![file[t]] = left]
    BY <1>3 DEF WriteFails
  <2>2. left \in Contents
    BY DEF Inv, TypeOK, Contents
  <2>3. answer' \in [Threads -> Versions \cup {"none", "ok", "error"}]
    BY <1>1 DEF Return, Inv, TypeOK
  <2>4. OwnsTemp(t) /\ synced' = synced \cup {}
    BY <1>1, <1>3 DEF OwnsTemp
  <2>5. /\ pc' = [pc EXCEPT ![t] = "idle"] /\ file' = [file EXCEPT ![t] = NoFile]
        /\ arg' = [arg EXCEPT ![t] = EmptyCheckpoint]
    BY <1>1 DEF Return, Goto
  <2> QED BY <1>1, <2>1, <2>2, <2>3, <2>4, <2>5, OwnFileStep
<1> QED BY <1>2, <1>3 DEF WriteFails

(* A death: what the survivors have open, and what the path may name, is   *)
(* as it was.                                                              *)
LEMMA DieStep ==
  ASSUME Inv, NEW dead, Die(dead), UNCHANGED <<temps, used, synced>>,
         names' \subseteq names, path' \in names', data' \in [Files -> Contents],
         \A f \in Files : data'[f] = data[f] \/ (f \notin synced /\ dead = Instances)
  PROVE  Inv'
<1> USE FilesAssumption, VersionsAssumption DEF Inv
<1>1. /\ pc' = [t \in Threads |-> IF InstanceOf[t] \in dead THEN "idle" ELSE pc[t]]
      /\ file' = [t \in Threads |-> IF InstanceOf[t] \in dead THEN NoFile ELSE file[t]]
      /\ arg' = [t \in Threads |-> IF InstanceOf[t] \in dead THEN EmptyCheckpoint ELSE arg[t]]
      /\ answer' = [t \in Threads |-> IF InstanceOf[t] \in dead THEN "none" ELSE answer[t]]
      /\ faults' = faults /\ crashes' = crashes + 1
  BY DEF Die
<1>2. TypeOK'
  <2>1. /\ pc' \in [Threads -> Places]
        /\ file' \in [Threads -> used \cup {NoFile}]
        /\ arg' \in [Threads -> Versions]
        /\ answer' \in [Threads -> Versions \cup {"none", "ok", "error"}]
    BY <1>1 DEF TypeOK, Places
  <2>2. path' \in Files \cup {NoFile} /\ names' \subseteq used \cup {NoFile}
        /\ names' \subseteq Files \cup {NoFile}
    BY DEF TypeOK
  <2> QED BY <1>1, <2>1, <2>2 DEF TypeOK, Places
<1>3. ASSUME NEW f, Complete(f), f \in used \cup {NoFile} PROVE Complete(f)'
  BY <1>3 DEF Complete, TypeOK
<1>4. (\A f \in names : Complete(f))'
  BY <1>3 DEF Sound, TypeOK
<1>5. ASSUME NEW t \in Threads PROVE WriterOk(t)' /\ ReaderOk(t)'
  <2>1. CASE InstanceOf[t] \in dead
    BY <1>1, <2>1 DEF WriterOk, ReaderOk, OwnsTemp
  <2>2. CASE InstanceOf[t] \notin dead
    <3>1. pc'[t] = pc[t] /\ file'[t] = file[t] /\ arg'[t] = arg[t]
      BY <1>1, <2>2
    <3>2. dead # Instances
      BY <2>2, ThreadsAssumption
    <3>3. \A f \in Files : data'[f] = data[f]
      BY <3>2
    <3>4. WriterOk(t) /\ ReaderOk(t) /\ file[t] \in used \cup {NoFile} /\ temps \subseteq Files
      BY DEF Sound, TypeOK
    <3>5. WriterOk(t)'
      BY <3>1, <3>3, <3>4 DEF WriterOk, OwnsTemp
    <3>6. ReaderOk(t)'
      BY <1>3, <3>1, <3>4 DEF ReaderOk, Complete
    <3> QED BY <3>5, <3>6
  <2> QED BY <2>1, <2>2
<1>6. (\A r, s \in Threads : r # s /\ OwnsTemp(r) /\ OwnsTemp(s) => file[r] # file[s])'
  BY <1>1 DEF Sound, OwnsTemp
<1> QED BY <1>2, <1>4, <1>5, <1>6 DEF Sound

LEMMA InvStep ==
  ASSUME Inv, [Next]_vars
  PROVE  Inv'
<1>0. /\ pc \in [Threads -> Places] /\ faults \in Nat /\ crashes \in Nat
      /\ data \in [Files -> Contents] /\ arg \in [Threads -> Versions]
      /\ answer \in [Threads -> Versions \cup {"none", "ok", "error"}]
  BY DEF Inv, TypeOK, Places
<1>1. ASSUME NEW t \in Threads, NEW v \in Versions, CallWrite(t, v) PROVE Inv'
  BY <1>0, <1>1, QuietStep DEF CallWrite, NoFault
<1>2. ASSUME NEW t \in Threads, CallRead(t) PROVE Inv'
  BY <1>0, <1>2, QuietStep DEF CallRead, NoFault
<1>3. ASSUME NEW t \in Threads, Encode(t) PROVE Inv'
  <2>1. /\ OwnsTemp(t) /\ pc' = [pc EXCEPT ![t] = "sync"]
        /\ data' = [data EXCEPT ![file[t]] = arg[t]] /\ arg[t] \in Contents
        /\ synced' = synced \cup {} /\ answer' = answer
        /\ UNCHANGED <<path, names, temps, used, file, arg, faults, crashes>>
    BY <1>0, <1>3 DEF Encode, Goto, NoFault, OwnsTemp, Contents
  <2> QED BY <1>0, <2>1, OwnFileStep
<1>4. ASSUME NEW t \in Threads, Sync(t) PROVE Inv'
  <2>1. /\ OwnsTemp(t) /\ pc' = [pc EXCEPT ![t] = "rename"]
        /\ synced' = synced \cup {file[t]} /\ answer' = answer
        /\ UNCHANGED <<path, names, temps, used, file, arg, faults, crashes>>
    BY <1>4 DEF Sync, Goto, NoFault, OwnsTemp
  <2>2. data[file[t]] = arg[t] /\ file[t] \in Files
    BY <1>4 DEF Sync, Goto, Inv, Sound, WriterOk, OwnsTemp, TypeOK
  <2>3. data' = [data EXCEPT ![file[t]] = arg[t]] /\ arg[t] \in Contents
    BY <1>0, <1>4, <2>2 DEF Sync, Contents
  <2> QED BY <1>0, <2>1, <2>3, OwnFileStep
<1>5. ASSUME NEW t \in Threads, Close(t) PROVE Inv'
  BY <1>0, <1>5, QuietStep DEF Close, NoFault, Places
<1>6. ASSUME NEW t \in Threads, Read(t) PROVE Inv'
  <2>1. Decode(ContentOf(file[t])) \in Versions \cup {"ok", "error"}
    BY DEF Decode
  <2> QED BY <1>0, <1>6, <2>1, QuietStep DEF Read, NoFault, Places
<1>7. ASSUME NEW t \in Threads, ReadFails(t) PROVE Inv'
  BY <1>0, <1>7, QuietStep DEF ReadFails, Fault, Places
<1>8. ASSUME NEW i \in Instances, Crash(i) PROVE Inv'
  <2>1. Die({i}) /\ UNCHANGED <<path, names, temps, used, synced, data>>
    BY <1>8 DEF Crash, disk
  <2>2. path' \in names' /\ names' \subseteq names
    BY <2>1 DEF Inv, TypeOK
  <2>3. data' \in [Files -> Contents]
        /\ \A f \in Files : data'[f] = data[f]
    BY <1>0, <2>1
  <2> QED BY <2>1, <2>2, <2>3, DieStep
<1>9. CASE PowerLoss
  BY <1>0, <1>9, DieStep DEF PowerLoss
<1>10. CASE Writeback
  <2>1. TypeOK' /\ names' \subseteq names
    BY <1>10 DEF Writeback, Inv, TypeOK, thread
  <2> QED BY <1>10, <2>1 DEF Writeback, thread, Inv, Sound, Complete, WriterOk, ReaderOk, OwnsTemp
<1>11. CASE UNCHANGED vars
  BY <1>11 DEF vars, disk, thread, Inv, TypeOK, Sound, Complete, WriterOk, ReaderOk, OwnsTemp
<1> QED BY <1>1, <1>2, <1>3, <1>4, <1>5, <1>6, <1>7, <1>8, <1>9, <1>10, <1>11,
           CreateTempStep, RenameStep, OpenStep, WriteFailsStep
        DEF Next, writeCheckpoint, readCheckpoint

LEMMA Invariant == Spec => []Inv
<1>1. Inv /\ [Next]_vars => Inv'
  BY InvStep
<1>2. Init => Inv
  BY InvInit
<1> QED BY <1>1, <1>2, PTL DEF Spec

(* Every variable of the file's model keeps its type. *)
THEOREM FileTypeCorrect == Spec => []TypeOK
<1>1. Inv => TypeOK
  BY DEF Inv
<1> QED BY <1>1, Invariant, PTL

(* The path of the checkpoint never names an empty or torn file, nor can a *)
(* loss of power make it do so: a file is complete and synced before it    *)
(* gets the name, and nobody writes to it afterwards.                      *)
THEOREM FileNeverTorn == Spec => []NeverTorn
<1>1. Inv => NeverTorn
  BY DEF Inv, Sound, Complete, NeverTorn
<1> QED BY <1>1, Invariant, PTL

-----------------------------------------------------------------------------
(* The register. *)

(* What a step of one thread is to the register: the other threads do not  *)
(* notice it, and complete files stay as they are.                         *)
LEMMA ThreadStep ==
  ASSUME Inv, NEW t \in Threads, NEW to \in Places, pc' = [pc EXCEPT ![t] = to],
         \A u \in Threads \ {t} : file'[u] = file[u] /\ arg'[u] = arg[u],
         \A f \in Files : f \notin temps => data'[f] = data[f]
  PROVE  /\ Stage' = [Stage EXCEPT ![t] = StageOf(to)]
         /\ \A f \in names : ContentOf(f)' = ContentOf(f)
         /\ Arg' = [Arg EXCEPT ![t] = IF to = "read" THEN ContentOf(file[t])' ELSE arg'[t]]
<1>1. pc \in [Threads -> Places]
  BY DEF Inv, TypeOK, Places
<1>2. Stage' = [Stage EXCEPT ![t] = StageOf(to)]
  BY <1>1 DEF Stage
<1>3. \A f \in names : ContentOf(f)' = ContentOf(f)
  BY DEF Inv, TypeOK, Sound, Complete, ContentOf
<1>4. ASSUME NEW u \in Threads, u # t PROVE Arg'[u] = Arg[u]
  <2>1. pc'[u] = pc[u] /\ file'[u] = file[u] /\ arg'[u] = arg[u]
    BY <1>1, <1>4
  <2>2. pc[u] = "read" => data'[file[u]] = data[file[u]] \/ file[u] = NoFile
    BY DEF Inv, TypeOK, Sound, ReaderOk, Complete
  <2> QED BY <2>1, <2>2 DEF Arg, ContentOf
<1>5. Arg'[t] = IF to = "read" THEN ContentOf(file[t])' ELSE arg'[t]
  BY <1>1 DEF Arg
<1>6. Arg' = [Arg EXCEPT ![t] = Arg'[t]]
  BY <1>4 DEF Arg
<1> QED BY <1>2, <1>3, <1>5, <1>6

(* Nothing happens to the directory. *)
LEMMA SameDirectory ==
  ASSUME Inv, path' = path, names' = names,
         \A f \in names : ContentOf(f)' = ContentOf(f)
  PROVE  UNCHANGED <<Value, Safe>>
<1>1. path \in names
  BY DEF Inv, TypeOK
<1>2. Value' = Value
  BY <1>1 DEF Value, ContentOf
<1>3. Safe' = Safe
  BY DEF Safe, ContentOf
<1> QED BY <1>2, <1>3

(* Where a step leaves the place in the register alone, the register does  *)
(* not notice it.                                                          *)
LEMMA Unnoticed ==
  ASSUME Inv, NEW t \in Threads, CreateTemp(t) \/ Encode(t) \/ Sync(t)
  PROVE  UNCHANGED <<Value, Safe, Stage, Arg, answer, faults>>
<1>1. PICK to \in {"encode", "sync", "rename"} :
          /\ pc' = [pc EXCEPT ![t] = to]
          /\ pc[t] \in {"create", "encode", "sync"}
          /\ pc[t] = "create" => data' = data
          /\ UNCHANGED <<path, names, arg, answer, faults>>
          /\ \A u \in Threads \ {t} : file'[u] = file[u]
  BY DEF CreateTemp, Encode, Sync, Goto, NoFault, Inv, TypeOK
<1>2. \A f \in Files : f \notin temps => data'[f] = data[f]
  BY DEF CreateTemp, Encode, Sync, Goto, Inv, Sound, WriterOk, OwnsTemp, TypeOK
<1>3. /\ Stage' = [Stage EXCEPT ![t] = StageOf(to)]
      /\ \A f \in names : ContentOf(f)' = ContentOf(f)
      /\ Arg' = [Arg EXCEPT ![t] = arg'[t]]
  BY <1>1, <1>2, ThreadStep DEF Places
<1>4. Stage' = Stage
  BY <1>1, <1>3 DEF Stage, StageOf
<1>5. Arg' = Arg
  BY <1>1, <1>3 DEF Arg
<1> QED BY <1>1, <1>3, <1>4, <1>5, SameDirectory

LEMMA CallStep ==
  ASSUME Inv, NEW t \in Threads
  PROVE  /\ \A v \in Versions : CallWrite(t, v) => Register!Call(t, "writing", v)
         /\ CallRead(t) => Register!Call(t, "reading", EmptyCheckpoint)
<1>1. ASSUME NEW to \in {"create", "open"}, NEW v \in Versions,
             pc[t] = "idle", pc' = [pc EXCEPT ![t] = to], arg' = [arg EXCEPT ![t] = v],
             answer' = [answer EXCEPT ![t] = "none"],
             UNCHANGED <<disk, file, faults>>
      PROVE  Register!Call(t, StageOf(to), v)
  <2>1. arg'[t] = v /\ \A u \in Threads \ {t} : arg'[u] = arg[u] /\ file'[u] = file[u]
    BY <1>1 DEF Inv, TypeOK
  <2>2. /\ Stage' = [Stage EXCEPT ![t] = StageOf(to)]
        /\ \A f \in names : ContentOf(f)' = ContentOf(f)
        /\ Arg' = [Arg EXCEPT ![t] = v]
    BY <1>1, <2>1, ThreadStep DEF Places, disk
  <2>3. Stage[t] = "idle"
    BY <1>1 DEF Stage, StageOf
  <2> QED BY <1>1, <2>2, <2>3, SameDirectory DEF Register!Call, disk
<1>2. ASSUME NEW v \in Versions, CallWrite(t, v) PROVE Register!Call(t, "writing", v)
  BY <1>1, <1>2 DEF CallWrite, Goto, NoFault, StageOf
<1>3. ASSUME CallRead(t) PROVE Register!Call(t, "reading", EmptyCheckpoint)
  <2>1. arg' = [arg EXCEPT ![t] = EmptyCheckpoint]
    BY <1>3 DEF CallRead, Goto, Inv, TypeOK, Sound, ReaderOk
  <2> QED BY <1>1, <1>3, <2>1, VersionsAssumption DEF CallRead, Goto, NoFault, StageOf
<1> QED BY <1>2, <1>3

LEMMA EffectStep ==
  ASSUME Inv, NEW t \in Threads, Rename(t)
  PROVE  Register!TakesEffect(t)
<1>1. /\ pc[t] = "rename" /\ pc' = [pc EXCEPT ![t] = "close"]
      /\ path' = file[t] /\ names' = names \cup {file[t]}
      /\ UNCHANGED <<data, file, arg, answer, faults>>
  BY DEF Rename, Goto, NoFault
<1>2. ContentOf(file[t]) = arg[t]
  BY <1>1, FilesAssumption DEF Inv, TypeOK, Sound, WriterOk, OwnsTemp, ContentOf
<1>3. /\ Stage' = [Stage EXCEPT ![t] = "written"]
      /\ Arg' = [Arg EXCEPT ![t] = arg[t]]
  BY <1>1, ThreadStep DEF Places, StageOf
<1>4. Stage[t] = "writing" /\ Arg[t] = arg[t] /\ Arg' = Arg
  BY <1>1, <1>3 DEF Stage, StageOf, Arg
<1>5. Value' = arg[t]
  BY <1>1, <1>2 DEF Value, ContentOf
<1>6. Safe' = Safe \cup {arg[t]}
  BY <1>1, <1>2 DEF Safe, ContentOf
<1> QED BY <1>1, <1>3, <1>4, <1>5, <1>6 DEF Register!TakesEffect

LEMMA OpenReads ==
  ASSUME Inv, NEW t \in Threads, Open(t)
  PROVE  Register!Reads(t)
<1>1. /\ pc[t] = "open" /\ pc' = [pc EXCEPT ![t] = "read"]
      /\ file' = [file EXCEPT ![t] = path]
      /\ UNCHANGED <<path, names, data, arg, answer, faults>>
  BY DEF Open, Goto, NoFault, disk
<1>2. file'[t] = path /\ \A u \in Threads \ {t} : file'[u] = file[u]
  BY <1>1 DEF Inv, TypeOK
<1>3. /\ Stage' = [Stage EXCEPT ![t] = "read"]
      /\ \A f \in names : ContentOf(f)' = ContentOf(f)
      /\ Arg' = [Arg EXCEPT ![t] = ContentOf(file[t])']
  BY <1>1, <1>2, ThreadStep DEF Places, StageOf
<1>4. ContentOf(file[t])' = Value
  BY <1>1, <1>2 DEF ContentOf, Value
<1>5. Stage[t] = "reading"
  BY <1>1 DEF Stage, StageOf
<1> QED BY <1>1, <1>3, <1>4, <1>5, SameDirectory DEF Register!Reads

LEMMA AnswerStep ==
  ASSUME Inv, NEW t \in Threads, NEW from \in Places, NEW result, Return(t, from, result),
         UNCHANGED <<path, names>>, \A f \in Files : f \notin temps => data'[f] = data[f]
  PROVE  Register!Answers(t, result)
<1>1. /\ pc' = [pc EXCEPT ![t] = "idle"]
      /\ arg'[t] = EmptyCheckpoint
      /\ answer' = [answer EXCEPT ![t] = result]
      /\ \A u \in Threads \ {t} : file'[u] = file[u] /\ arg'[u] = arg[u]
  BY DEF Return, Goto, Inv, TypeOK
<1>2. /\ Stage' = [Stage EXCEPT ![t] = "idle"]
      /\ \A f \in names : ContentOf(f)' = ContentOf(f)
      /\ Arg' = [Arg EXCEPT ![t] = EmptyCheckpoint]
  BY <1>1, ThreadStep DEF Places, StageOf
<1> QED BY <1>1, <1>2, SameDirectory DEF Register!Answers

LEMMA ReturnStep ==
  ASSUME Inv, NEW t \in Threads
  PROVE  /\ Close(t) => Register!Written(t)
         /\ Read(t) => Register!ReadDone(t)
         /\ WriteFails(t) \/ ReadFails(t) => Register!Fails(t)
<1>1. ASSUME Close(t) PROVE Register!Written(t)
  <2>1. Return(t, "close", "ok") /\ UNCHANGED <<path, names, data, faults>> /\ pc[t] = "close"
    BY <1>1 DEF Close, Return, Goto, NoFault, disk
  <2>2. Register!Answers(t, "ok")
    BY <2>1, AnswerStep DEF Places
  <2> QED BY <2>1, <2>2 DEF Register!Written, Stage, StageOf
<1>2. ASSUME Read(t) PROVE Register!ReadDone(t)
  <2>1. /\ Return(t, "read", Decode(ContentOf(file[t])))
        /\ UNCHANGED <<path, names, data, faults>> /\ pc[t] = "read"
    BY <1>2 DEF Read, Return, Goto, NoFault, disk
  <2>2. ContentOf(file[t]) \in Versions
    BY <2>1, VersionsAssumption DEF Inv, Sound, ReaderOk, Complete, ContentOf
  <2>3. Decode(ContentOf(file[t])) = Arg[t]
    BY <2>1, <2>2 DEF Decode, Arg
  <2>4. Register!Answers(t, Arg[t])
    BY <2>1, <2>3, AnswerStep DEF Places
  <2> QED BY <2>1, <2>4 DEF Register!ReadDone, Stage, StageOf
<1>3. ASSUME WriteFails(t) \/ ReadFails(t) PROVE Register!Fails(t)
  <2>1. /\ Return(t, pc[t], "error") /\ pc[t] \in Places \ {"idle"}
        /\ UNCHANGED <<path, names>> /\ faults' = faults + 1
    BY <1>3 DEF WriteFails, ReadFails, Fault, Places, disk
  <2>2. \A f \in Files : f \notin temps => data'[f] = data[f]
    BY <1>3 DEF WriteFails, ReadFails, disk, Inv, Sound, WriterOk, OwnsTemp, TypeOK
  <2>3. Register!Answers(t, "error")
    BY <2>1, <2>2, AnswerStep
  <2>4. Stage[t] # "idle"
    BY <2>1 DEF Stage, StageOf, Places
  <2> QED BY <2>1, <2>3, <2>4 DEF Register!Fails
<1> QED BY <1>1, <1>2, <1>3

LEMMA ForgetStep ==
  ASSUME Inv, NEW dead, Die(dead),
         \A t \in Threads : InstanceOf[t] \notin dead => UNCHANGED data
  PROVE  Register!Forgets(dead)
<1>1. /\ pc' = [t \in Threads |-> IF InstanceOf[t] \in dead THEN "idle" ELSE pc[t]]
      /\ file' = [t \in Threads |-> IF InstanceOf[t] \in dead THEN NoFile ELSE file[t]]
      /\ arg' = [t \in Threads |-> IF InstanceOf[t] \in dead THEN EmptyCheckpoint ELSE arg[t]]
      /\ answer' = [t \in Threads |-> IF InstanceOf[t] \in dead THEN "none" ELSE answer[t]]
      /\ faults' = faults
  BY DEF Die
<1>2. ASSUME NEW t \in Threads
      PROVE  /\ Stage'[t] = IF InstanceOf[t] \in dead THEN "idle" ELSE Stage[t]
             /\ Arg'[t] = IF InstanceOf[t] \in dead THEN EmptyCheckpoint ELSE Arg[t]
  BY <1>1 DEF Stage, StageOf, Arg, ContentOf
<1>3. /\ Stage' = [t \in Threads |-> IF InstanceOf[t] \in dead THEN "idle" ELSE Stage[t]]
      /\ Arg' = [t \in Threads |-> IF InstanceOf[t] \in dead THEN EmptyCheckpoint ELSE Arg[t]]
  BY <1>2 DEF Stage, Arg
<1> QED BY <1>1, <1>3 DEF Register!Forgets

LEMMA DeathStep ==
  ASSUME Inv
  PROVE  /\ \A i \in Instances : Crash(i) => Register!Dies(i)
         /\ PowerLoss => Register!LosesPower
         /\ Writeback => Register!Settles
<1>1. ASSUME NEW i \in Instances, Crash(i) PROVE Register!Dies(i)
  <2>1. UNCHANGED <<path, names, data>> /\ Die({i})
    BY <1>1 DEF Crash, disk
  <2>2. \A f \in names : ContentOf(f)' = ContentOf(f)
    BY <2>1 DEF ContentOf
  <2> QED BY <2>1, <2>2, ForgetStep, SameDirectory DEF Register!Dies
<1>2. ASSUME PowerLoss PROVE Register!LosesPower
  <2>1. Register!Forgets(Instances)
    BY <1>2, ForgetStep, ThreadsAssumption DEF PowerLoss
  <2>2. path' \in names /\ names' = {path'}
    BY <1>2 DEF PowerLoss
  <2>3. PICK p \in names : p = path'
    BY <2>2
  <2>4. data'[p] = data[p] \/ p = NoFile
    <3>1. p # NoFile => p \in synced /\ p \in Files
      BY DEF Inv, TypeOK, Sound, Complete
    <3> QED BY <1>2, <3>1 DEF PowerLoss
  <2>5. Value' = ContentOf(p)
    BY <2>3, <2>4 DEF Value, ContentOf
  <2>6. Safe' = {Value'}
    BY <2>2 DEF Safe, Value, ContentOf
  <2>7. Value' \in Safe
    BY <2>5 DEF Safe
  <2> QED BY <2>1, <2>6, <2>7 DEF Register!LosesPower
<1>3. ASSUME Writeback PROVE Register!Settles
  <2>1. /\ names' = {path} /\ path' = path
        /\ UNCHANGED <<data, pc, file, arg, answer, faults>>
    BY <1>3 DEF Writeback, thread
  <2>2. Value' = Value /\ Safe' = {Value}
    BY <2>1 DEF Value, Safe, ContentOf
  <2>3. Stage' = Stage /\ Arg' = Arg
    BY <2>1 DEF Stage, Arg, ContentOf
  <2> QED BY <2>1, <2>2, <2>3 DEF Register!Settles
<1> QED BY <1>1, <1>2, <1>3

LEMMA RegisterStep ==
  ASSUME Inv, [Next]_vars
  PROVE  [Register!Next]_<<Value, Safe, Stage, Arg, answer, faults>>
<1>1. ASSUME NEW t \in Threads, writeCheckpoint(t)
      PROVE  [Register!Next]_<<Value, Safe, Stage, Arg, answer, faults>>
  BY <1>1, Unnoticed, EffectStep, ReturnStep DEF writeCheckpoint, Register!Next
<1>2. ASSUME NEW t \in Threads, readCheckpoint(t) PROVE Register!Next
  BY <1>2, OpenReads, ReturnStep DEF readCheckpoint, Register!Next
<1>3. ASSUME NEW t \in Threads, CallRead(t) \/ \E v \in Versions : CallWrite(t, v)
      PROVE  Register!Next
  BY <1>3, CallStep DEF Register!Next
<1>4. CASE PowerLoss \/ Writeback \/ \E i \in Instances : Crash(i)
  BY <1>4, DeathStep DEF Register!Next
<1>5. CASE UNCHANGED vars
  <2>1. UNCHANGED <<path, names, data, pc, file, arg, answer, faults>>
    BY <1>5 DEF vars, disk, thread
  <2> QED BY <2>1 DEF Value, Safe, Stage, Arg, ContentOf
<1> QED BY <1>1, <1>2, <1>3, <1>4, <1>5 DEF Next

LEMMA RegisterInit ==
  ASSUME Init
  PROVE  Register!Init
BY DEF Init, Register!Init, Value, Safe, Stage, StageOf, Arg, ContentOf

(* The checkpoint file is a register: writes that race take effect one     *)
(* after the other or not at all, reads find one of them whole, a failed   *)
(* call or a death leaves it as it was before or after a write, and a loss *)
(* of power goes back at most to what the disk was last told.              *)
THEOREM FileImplementsRegister == Spec => ImplementsRegister
<1>1. Inv /\ [Next]_vars => [Register!Next]_<<Value, Safe, Stage, Arg, answer, faults>>
  BY RegisterStep
<1>2. Init => Register!Init
  BY RegisterInit
<1>3. ImplementsRegister <=>
          Register!Init /\ [][Register!Next]_<<Value, Safe, Stage, Arg, answer, faults>>
  BY DEF ImplementsRegister, Register!Spec, Register!vars
<1> QED BY <1>1, <1>2, <1>3, Invariant, PTL DEF Spec
=============================================================================
