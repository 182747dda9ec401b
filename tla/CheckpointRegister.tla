------------------------ MODULE CheckpointRegister ------------------------
(***************************************************************************)
(* What readCheckpoint and writeCheckpoint promise: a register.  A write   *)
(* takes effect at once, or not at all; an error does not say which.  A    *)
(* read finds one complete version, and no error unless an I/O operation   *)
(* fails.  The death of a process leaves the register alone.  A loss of    *)
(* power may bring back a version that was current since the directory was *)
(* last written to the disk, and nothing else.                             *)
(***************************************************************************)
EXTENDS Naturals

CONSTANTS
    Threads, Instances, InstanceOf,
    Versions,       \* the Checkpoint objects
    EmptyCheckpoint \* what is read before the first write

VARIABLES
    value,          \* the current version
    safe,           \* the versions that a loss of power may leave
    stage,          \* how far the call of a thread is
    arg,            \* the version it writes, or has read
    answer,         \* what the last call of a thread returned
    faults          \* how many I/O operations have failed

vars == <<value, safe, stage, arg, answer, faults>>

Init ==
    /\ value = EmptyCheckpoint
    /\ safe = {EmptyCheckpoint}
    /\ stage = [t \in Threads |-> "idle"]
    /\ arg = [t \in Threads |-> EmptyCheckpoint]
    /\ answer = [t \in Threads |-> "none"]
    /\ faults = 0

Call(t, to, v) ==
    /\ stage[t] = "idle"
    /\ stage' = [stage EXCEPT ![t] = to]
    /\ arg' = [arg EXCEPT ![t] = v]
    /\ answer' = [answer EXCEPT ![t] = "none"]
    /\ UNCHANGED <<value, safe, faults>>

Answers(t, result) ==
    /\ stage' = [stage EXCEPT ![t] = "idle"]
    /\ arg' = [arg EXCEPT ![t] = EmptyCheckpoint]
    /\ answer' = [answer EXCEPT ![t] = result]
    /\ UNCHANGED <<value, safe>>

(* A write takes effect between its call and its answer. *)
TakesEffect(t) ==
    /\ stage[t] = "writing"
    /\ stage' = [stage EXCEPT ![t] = "written"]
    /\ value' = arg[t]
    /\ safe' = safe \cup {arg[t]}
    /\ UNCHANGED <<arg, answer, faults>>

Written(t) ==
    /\ stage[t] = "written"
    /\ Answers(t, "ok")
    /\ UNCHANGED faults

Reads(t) ==
    /\ stage[t] = "reading"
    /\ stage' = [stage EXCEPT ![t] = "read"]
    /\ arg' = [arg EXCEPT ![t] = value]
    /\ UNCHANGED <<value, safe, answer, faults>>

ReadDone(t) ==
    /\ stage[t] = "read"
    /\ Answers(t, arg[t])
    /\ UNCHANGED faults

(* Each error is the error of an I/O operation. *)
Fails(t) ==
    /\ stage[t] # "idle"
    /\ Answers(t, "error")
    /\ faults' = faults + 1

(* The directory is written to the disk. *)
Settles ==
    /\ safe' = {value}
    /\ UNCHANGED <<value, stage, arg, answer, faults>>

Forgets(dead) ==
    LET Reset(f, v) == [t \in Threads |-> IF InstanceOf[t] \in dead THEN v ELSE f[t]]
    IN  /\ stage' = Reset(stage, "idle")
        /\ arg' = Reset(arg, EmptyCheckpoint)
        /\ answer' = Reset(answer, "none")
        /\ UNCHANGED faults

Dies(i) == Forgets({i}) /\ UNCHANGED <<value, safe>>

LosesPower ==
    /\ Forgets(Instances)
    /\ value' \in safe
    /\ safe' = {value'}

Next ==
    \/ \E t \in Threads :
           \/ \E v \in Versions : Call(t, "writing", v)
           \/ Call(t, "reading", EmptyCheckpoint)
           \/ TakesEffect(t) \/ Written(t) \/ Reads(t) \/ ReadDone(t) \/ Fails(t)
    \/ \E i \in Instances : Dies(i)
    \/ Settles
    \/ LosesPower

Spec == Init /\ [][Next]_vars
=============================================================================
