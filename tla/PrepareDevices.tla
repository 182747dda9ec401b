--------------------------- MODULE PrepareDevices ---------------------------
(***************************************************************************)
(* prepareDevices after the directories are made: the devices of a claim   *)
(* are configured (DeviceConfigs) and, where the profile builds a status   *)
(* for one of them, their status is published (DeviceStatus).              *)
(*                                                                         *)
(* The drivers whose devices a claim has all prepare it, each again and    *)
(* again, while others write the claim.  The allocation does not change.   *)
(***************************************************************************)
EXTENDS DeviceConfigs, DeviceStatus

CONSTANTS
    Allocations,    \* [configs, results] of a claim
    Reported,       \* devices with a status (BuildDeviceStatus)
    MaxPrepares     \* bound on the calls of prepareDevices by a driver

VARIABLES
    allocation,     \* the claim's
    prepared,       \* the devices a driver has computed last
    result,         \* what its last call of prepareDevices comes to
    prepares

(* The types of the API. *)
ASSUME AllocationsAssumption ==
    Allocations \subseteq
        [configs : Seq([source : STRING, opaque : BOOLEAN, driver : STRING,
                        parameters : STRING, requests : SUBSET STRING]),
         results : Seq([driver : STRING, request : STRING, device : STRING, admin : BOOLEAN])]

outcomes  == <<prepared, result, prepares>>
preparing == <<allocation, outcomes>>

PrepareInit ==
    /\ allocation \in Allocations
    /\ prepared = [d \in Drivers |-> {}]
    /\ result = [d \in Drivers |-> "none"]
    /\ prepares = [d \in Drivers |-> 0]
    /\ Init

Computes(d, devices, verdict) ==
    /\ pc[d] = "idle"
    /\ prepares[d] < MaxPrepares
    /\ prepares' = [prepares EXCEPT ![d] = @ + 1]
    /\ prepared' = [prepared EXCEPT ![d] = devices]
    /\ result' = [result EXCEPT ![d] = verdict]
    /\ UNCHANGED allocation

HasStatus(d) ==
    \E n \in OwnResults(d, allocation.results) : allocation.results[n].device \in Reported

(* Nothing is published without devices. *)
ConfigRefused(d) ==
    /\ ConfigFails(d, allocation.configs, allocation.results)
    /\ Computes(d, {}, "error")
    /\ UNCHANGED <<claim, writes, caller>>

(* Whatever becomes of the status, the devices are prepared. *)
ConfigComputed(d) ==
    /\ ~ConfigFails(d, allocation.configs, allocation.results)
    /\ \E devices \in computeDeviceConfig(d, allocation.configs, allocation.results) :
           Computes(d, devices, "ok")
    /\ IF HasStatus(d) THEN Publish(d) ELSE UNCHANGED <<claim, writes, caller>>

prepareDevices(d) ==
    \/ ConfigRefused(d)
    \/ ConfigComputed(d)
    \/ updateDeviceStatus(d) /\ UNCHANGED preparing

PrepareNext ==
    \/ \E d \in Drivers : prepareDevices(d)
    \/ OtherWrite /\ UNCHANGED preparing

PrepareSpec == PrepareInit /\ [][PrepareNext]_<<preparing, vars>>

-----------------------------------------------------------------------------
(* Properties. *)

(* The CDI library takes the spec of the claim: no device comes twice. *)
ValidSpec(d) ==
    \A m, n \in OwnResults(d, allocation.results) :
        allocation.results[m].device = allocation.results[n].device => m = n

Relevant(d, request) ==
    {k \in 1 .. Len(allocation.configs) :
        LET c == allocation.configs[k]
        IN  Own(d, c) /\ (c.requests = {} \/ request \in c.requests)}

(* "Configs coming directly from the resource claim take precedence over   *)
(* configs coming from the device class.  Moreover, configs found later in *)
(* the list of configs attached to its source take precedence over configs *)
(* found earlier in the list for that source."                             *)
TakesPrecedence(a, b) ==
    LET Source(k) == allocation.configs[k].source
    IN  \/ Source(a) = "FromClaim" /\ Source(b) = "FromClass"
        \/ Source(a) = Source(b) /\ a > b

(* Each device of a claim that the CDI library takes comes out with the    *)
(* edits of its own request, under the config that takes precedence over   *)
(* all others for this request, or the default one if there is none.       *)
HighestPrecedence ==
    \A d \in Drivers : ValidSpec(d) =>
        \A device \in prepared[d] :
            /\ device.edits.request = device.request
            /\ \/ Relevant(d, device.request) = {} /\ device.edits.config = "none"
               \/ \E a \in Relevant(d, device.request) :
                      /\ \A b \in Relevant(d, device.request) \ {a} : TakesPrecedence(a, b)
                      /\ device.edits.config = allocation.configs[a].parameters

(* "It is called each time the kubelet tells the driver to prepare a claim *)
(* which may occur more than once, and therefore should be deterministic": *)
(* whatever the order of the maps and whatever has become of the status,   *)
(* a driver's second call gives the devices of its first one, up to their  *)
(* order.                                                                  *)
Deterministic ==
    [][\A d \in Drivers : ValidSpec(d) /\ result[d] # "none"
           => result'[d] = result[d] /\ prepared'[d] = prepared[d]]_<<preparing, vars>>
=============================================================================
