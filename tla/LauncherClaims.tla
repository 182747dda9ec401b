--------------------------- MODULE LauncherClaims ---------------------------
(***************************************************************************)
(* The claims KubeVirt makes for virtual machines, as the driver meets     *)
(* them.  Every virt-launcher pod of a VM gets a claim of its own, whose   *)
(* name carries two generated hashes; a live migration runs a second pod,  *)
(* with other hashes, before the first one ends.  The VM's disk must find  *)
(* the same directory on both sides, so the driver names the directory     *)
(* after what the two names have in common.                                *)
(*                                                                         *)
(* KubeVirt is not part of the repository: its actions are the ones the    *)
(* comments of extractStableClaimName describe.                            *)
(***************************************************************************)
EXTENDS StableName

CONSTANTS
    VMs,        \* [vmi, template], the two names as sequences of parts
    Hashes      \* the hashes Kubernetes generates

ASSUME HashesAssumption == Hashes \subseteq HashShaped

(* A VMI and a template have a name. *)
ASSUME VMsAssumption ==
    VMs \subseteq [vmi : Seq(STRING) \ {<<>>}, template : Seq(STRING) \ {<<>>}]

VARIABLE claims      \* the names of the claims of each VM's launcher pods

vars == claims

-----------------------------------------------------------------------------

LauncherClaimName(vm, podHash, claimHash) ==
    VirtLauncher \o vm.vmi \o <<podHash>> \o vm.template \o <<claimHash>>

ClaimNames(vm) == {LauncherClaimName(vm, p, c) : p, c \in Hashes}

Init == claims = [vm \in VMs |-> {}]

(* The VM's first launcher pod gets its claim. *)
Boot(vm) ==
    /\ claims[vm] = {}
    /\ \E name \in ClaimNames(vm) : claims' = [claims EXCEPT ![vm] = {name}]

(* A migration starts the target pod while the source pod runs. *)
Migrate(vm) ==
    \E source \in claims[vm] :
        /\ claims[vm] = {source}
        /\ \E target \in ClaimNames(vm) \ {source} :
               claims' = [claims EXCEPT ![vm] = {source, target}]

(* A launcher pod ends: the source or an aborted target of a migration, or *)
(* the only pod of a VM that is shut down.                                 *)
PodEnds(vm) ==
    \E name \in claims[vm] : claims' = [claims EXCEPT ![vm] = @ \ {name}]

Next == \E vm \in VMs : Boot(vm) \/ Migrate(vm) \/ PodEnds(vm)

Spec == Init /\ [][Next]_vars

-----------------------------------------------------------------------------

Directory(name) == extractStableClaimName(name)

(* What the pod-hash scan cannot tell apart from a pod hash: a part of     *)
(* five letters or digits inside the VMI's own name.                       *)
PlainVmiNames ==
    \A vm \in VMs : \A i \in 1 .. Len(vm.vmi) : vm.vmi[i] \notin HashShaped

(* While a VM migrates, source and target claim lead to one directory: the *)
(* reason extractStableClaimName exists (README: "migration-stable         *)
(* directory paths").                                                      *)
MigrationKeepsDirectory ==
    [][\A vm \in VMs : \A old \in claims[vm], new \in claims'[vm] :
           Directory(old) = Directory(new)]_vars

(* VMs whose VMI and template names, written one after the other, differ   *)
(* never share a directory, however the hashes of their claims are chosen: *)
(* the directory of one is never removed with the claim of another.        *)
VMsApart ==
    \A v, w \in VMs : \A n \in claims[v], m \in claims[w] :
        v.vmi \o v.template # w.vmi \o w.template => Directory(n) # Directory(m)

(* "For KubeVirt claims [...] We extract: <vmi-name>-<template-name>", the *)
(* comment on extractStableClaimName.                                      *)
ExtractsVmiAndTemplate ==
    \A vm \in VMs : \A name \in claims[vm] :
        Directory(name) = vm.vmi \o vm.template
=============================================================================
