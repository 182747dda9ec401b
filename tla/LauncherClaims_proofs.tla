------------------------ MODULE LauncherClaims_proofs ------------------------
(***************************************************************************)
(* The directory of a VM's claims depends on the VM alone, for any set of  *)
(* VMs whose own names have no part of five letters or digits.             *)
(***************************************************************************)
EXTENDS LauncherClaims, StableName_proofs

Inv ==
    /\ claims \in [VMs -> SUBSET UNION {ClaimNames(vm) : vm \in VMs}]
    /\ \A vm \in VMs : claims[vm] \subseteq ClaimNames(vm)

LEMMA DirectoryOfClaim ==
  ASSUME PlainVmiNames, NEW vm \in VMs, NEW name \in ClaimNames(vm)
  PROVE  Directory(name) = vm.vmi \o vm.template
<1>1. PICK p \in Hashes, c \in Hashes :
          name = VirtLauncher \o vm.vmi \o <<p>> \o vm.template \o <<c>>
  <2>1. \E p \in Hashes, c \in Hashes : name = LauncherClaimName(vm, p, c)
    BY DEF ClaimNames
  <2> QED BY <2>1, Zenon DEF LauncherClaimName
<1>2. p \in HashShaped /\ c \in HashShaped
  BY HashesAssumption
<1>3. vm.vmi \in Seq(STRING) \ {<<>>} /\ vm.template \in Seq(STRING) \ {<<>>}
  BY VMsAssumption
<1>4. \A i \in 1 .. Len(vm.vmi) : vm.vmi[i] \notin HashShaped
  BY DEF PlainVmiNames
<1> QED BY <1>1, <1>2, <1>3, <1>4, ExtractLauncherName DEF Directory

(* A claim's name is always one that KubeVirt makes for its VM. *)
LEMMA ClaimsOfTheirVM == Spec => []Inv
<1>1. Init => Inv
  BY DEF Init, Inv
<1>2. Inv /\ [Next]_vars => Inv'
  <2> SUFFICES ASSUME Inv, [Next]_vars PROVE Inv'
    OBVIOUS
  <2> USE DEF Inv
  <2>1. ASSUME NEW vm \in VMs, Boot(vm) PROVE Inv'
    BY <2>1 DEF Boot
  <2>2. ASSUME NEW vm \in VMs, Migrate(vm) PROVE Inv'
    BY <2>2 DEF Migrate
  <2>3. ASSUME NEW vm \in VMs, PodEnds(vm) PROVE Inv'
    BY <2>3 DEF PodEnds
  <2>4. CASE UNCHANGED vars
    BY <2>4 DEF vars
  <2> QED BY <2>1, <2>2, <2>3, <2>4 DEF Next
<1> QED BY <1>1, <1>2, PTL DEF Spec

(* extractStableClaimName yields <vmi-name>-<template-name>, as its        *)
(* comment says, for every claim of a VM with a plain name.                *)
THEOREM PlainNamesExtracted ==
  ASSUME PlainVmiNames
  PROVE  Spec => []ExtractsVmiAndTemplate
<1>1. Inv => ExtractsVmiAndTemplate
  BY DirectoryOfClaim DEF Inv, ExtractsVmiAndTemplate
<1> QED BY <1>1, ClaimsOfTheirVM, PTL

(* The directory does not change in a live migration. *)
THEOREM MigrationStable ==
  ASSUME PlainVmiNames
  PROVE  Spec => MigrationKeepsDirectory
<1>1. Inv /\ Inv' => \A vm \in VMs : \A old \in claims[vm], new \in claims'[vm] :
                         Directory(old) = Directory(new)
  BY DirectoryOfClaim DEF Inv
<1> QED BY <1>1, ClaimsOfTheirVM, PTL DEF MigrationKeepsDirectory

(* VMs with different names never meet in one directory. *)
THEOREM VMsStayApart ==
  ASSUME PlainVmiNames
  PROVE  Spec => []VMsApart
<1>1. Inv => VMsApart
  BY DirectoryOfClaim DEF Inv, VMsApart
<1> QED BY <1>1, ClaimsOfTheirVM, PTL
=============================================================================
