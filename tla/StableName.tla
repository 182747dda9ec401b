----------------------------- MODULE StableName -----------------------------
(***************************************************************************)
(* extractStableClaimName: the part of a ResourceClaim's name that must    *)
(* not change when KubeVirt migrates a virtual machine.  The same function *)
(* exists twice, in state.go (the directory that is made and removed) and  *)
(* in network.go (the directory that is bind-mounted); they agree line for *)
(* line and are translated once.                                           *)
(*                                                                         *)
(* A name is the sequence of its "-"-separated parts: strings.Split and    *)
(* strings.Join with "-" are inverse to each other, so nothing is lost.    *)
(* HashShaped stands for the test len(part) == 5 && isAlphanumeric(part).  *)
(***************************************************************************)
EXTENDS Naturals, Sequences, FiniteSetsExt

CONSTANT HashShaped      \* the parts of five letters or digits

VirtLauncher == <<"virt", "launcher">>

(* "virt", "launcher" and the empty part do not have five characters. *)
ASSUME HashShapedAssumption ==
    /\ HashShaped \subseteq STRING
    /\ {"virt", "launcher", ""} \cap HashShaped = {}

-----------------------------------------------------------------------------

(* strings.HasPrefix(name, "virt-launcher-"): the trailing "-" is there    *)
(* exactly when a third part, possibly empty, follows.                     *)
HasLauncherPrefix(name) ==
    /\ Len(name) >= 3
    /\ name[1] = VirtLauncher[1]
    /\ name[2] = VirtLauncher[2]

(* The parts after the prefix, without the claim hash at the end. *)
WithoutClaimHash(name) == SubSeq(name, 3, Len(name) - 1)

(* A pod hash with at least one part of the template name after it. *)
PodHashIndices(parts) ==
    {i \in 1 .. Len(parts) : parts[i] \in HashShaped /\ i < Len(parts)}

(* The scan breaks at the first match.  Mutant: it takes the last one. *)
LastPodHashIndex(parts) == Max(PodHashIndices(parts))
PodHashIndex(parts) == Min(PodHashIndices(parts))

(* vmiName + "-" + templateName, where Join of no parts is the empty name. *)
(* Mutant: the VMI's name is forgotten.                                    *)
JoinsTemplateOnly(vmi, template) == template
JoinNames(vmi, template) == (IF vmi = <<>> THEN <<"">> ELSE vmi) \o template

extractStableClaimName(name) ==
    LET parts == WithoutClaimHash(name)
        k     == PodHashIndex(parts)
    IN  IF \/ ~HasLauncherPrefix(name)
           \/ Len(name) < 6                      \* fewer than 4 parts follow
           \/ PodHashIndices(parts) = {}
        THEN name
        ELSE JoinNames(SubSeq(parts, 1, k - 1), SubSeq(parts, k + 1, Len(parts)))
=============================================================================
