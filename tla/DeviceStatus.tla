---------------------------- MODULE DeviceStatus ----------------------------
(***************************************************************************)
(* updateDeviceStatus: the status.devices of a ResourceClaim is replaced   *)
(* while others change the same object.                                    *)
(*                                                                         *)
(* prepareDevices calls it for a profile that builds a device status; the  *)
(* network profile builds none.  Two calls may overlap where two drivers   *)
(* made of this program serve devices of one claim.                        *)
(*                                                                         *)
(* External: the API server, which refuses an update of anything but the   *)
(* latest version, and retry.RetryOnConflict.                              *)
(***************************************************************************)
EXTENDS Naturals

CONSTANTS
    Drivers,        \* their calls of updateDeviceStatus
    None,           \* nobody
    Steps,          \* how often retry.DefaultRetry tries
    MaxCalls,       \* bound on the calls of a driver
    MaxWrites       \* bound on the changes by other components

ASSUME StepsAssumption == Steps \in Nat \ {0}

ASSUME NoneAssumption == None \notin Drivers

VARIABLES
    claim,          \* the object: its version, whose status.devices it has,
                    \* and the changes others have made to the rest of it
    writes,         \* the changes others have made
    pc,             \* where a call is
    copy,           \* the object it has read
    tries,          \* how often it has met a conflict
    since,          \* history: the version when it was called
    outcome,        \* what its last call has returned
    calls

caller == <<pc, copy, tries, since, outcome, calls>>
vars   == <<claim, writes, caller>>

Claim == [version : Nat, devices : Drivers \cup {None}, rest : Nat]

TypeOK ==
    /\ claim \in Claim
    /\ writes \in Nat
    /\ pc \in [Drivers -> {"idle", "get", "update"}]
    /\ copy \in [Drivers -> Claim]
    /\ tries \in [Drivers -> Nat]
    /\ since \in [Drivers -> Nat]
    /\ outcome \in [Drivers -> {"none", "ok", "conflict", "error"}]
    /\ calls \in [Drivers -> Nat]

New == [version |-> 0, devices |-> None, rest |-> 0]

Init ==
    /\ claim = New
    /\ writes = 0
    /\ pc = [d \in Drivers |-> "idle"]
    /\ copy = [d \in Drivers |-> New]
    /\ tries = [d \in Drivers |-> 0]
    /\ since = [d \in Drivers |-> 0]
    /\ outcome = [d \in Drivers |-> "none"]
    /\ calls = [d \in Drivers |-> 0]

(* prepareDevices has a status to publish. *)
Publish(d) ==
    /\ pc[d] = "idle"
    /\ calls[d] < MaxCalls
    /\ pc' = [pc EXCEPT ![d] = "get"]
    /\ tries' = [tries EXCEPT ![d] = 0]
    /\ since' = [since EXCEPT ![d] = claim.version]
    /\ outcome' = [outcome EXCEPT ![d] = "none"]
    /\ calls' = [calls EXCEPT ![d] = @ + 1]
    /\ UNCHANGED <<claim, writes, copy>>

Returns(d, result) ==
    /\ pc' = [pc EXCEPT ![d] = "idle"]
    /\ outcome' = [outcome EXCEPT ![d] = result]

(* Each try reads the object again.  Mutant: only the first one does. *)
GetsOnce(d) ==
    /\ pc[d] = "get"
    /\ pc' = [pc EXCEPT ![d] = "update"]
    /\ copy' = IF tries[d] = 0 THEN [copy EXCEPT ![d] = claim] ELSE copy
    /\ UNCHANGED <<claim, writes, tries, since, outcome, calls>>

Get(d) ==
    /\ pc[d] = "get"
    /\ pc' = [pc EXCEPT ![d] = "update"]
    /\ copy' = [copy EXCEPT ![d] = claim]
    /\ UNCHANGED <<claim, writes, tries, since, outcome, calls>>

(* What is written is the copy, with other devices; the answer may be      *)
(* lost.  Mutant: whatever the version is.                                 *)
Overwrites(d) ==
    /\ pc[d] = "update"
    /\ claim' = [copy[d] EXCEPT !.version = claim.version + 1, !.devices = d]
    /\ Returns(d, "ok") \/ Returns(d, "error")
    /\ UNCHANGED <<writes, copy, tries, since, calls>>

UpdateStatus(d) ==
    /\ pc[d] = "update"
    /\ copy[d].version = claim.version
    /\ claim' = [copy[d] EXCEPT !.version = claim.version + 1, !.devices = d]
    /\ Returns(d, "ok") \/ Returns(d, "error")
    /\ UNCHANGED <<writes, copy, tries, since, calls>>

(* A conflict is tried again until the steps of the backoff are used up.   *)
Conflict(d) ==
    /\ pc[d] = "update"
    /\ copy[d].version # claim.version
    /\ tries' = [tries EXCEPT ![d] = @ + 1]
    /\ IF tries[d] + 1 < Steps
       THEN pc' = [pc EXCEPT ![d] = "get"] /\ UNCHANGED outcome
       ELSE Returns(d, "conflict")
    /\ UNCHANGED <<claim, writes, copy, since, calls>>

(* Any other error is returned; the caller logs it. *)
Fails(d) ==
    /\ pc[d] # "idle"
    /\ Returns(d, "error")
    /\ UNCHANGED <<claim, writes, copy, tries, since, calls>>

updateDeviceStatus(d) == Get(d) \/ UpdateStatus(d) \/ Conflict(d) \/ Fails(d)

(* The scheduler, the kubelet or a user changes the rest of the object. *)
OtherWrite ==
    /\ writes < MaxWrites
    /\ writes' = writes + 1
    /\ claim' = [claim EXCEPT !.version = @ + 1, !.rest = @ + 1]
    /\ UNCHANGED caller

Next ==
    \/ \E d \in Drivers : Publish(d) \/ updateDeviceStatus(d)
    \/ OtherWrite

Spec == Init /\ [][Next]_vars

-----------------------------------------------------------------------------
(* Properties. *)

(* "update only status.devices": whatever others have written to the rest  *)
(* of the object since it was read stays.                                  *)
OnlyDevices == claim.rest = writes

(* The update gives up because of conflicts only if the object has changed *)
(* at least as often as it was tried.                                      *)
OutpacedOnly ==
    \A d \in Drivers : outcome[d] = "conflict" => claim.version >= since[d] + Steps
=============================================================================
