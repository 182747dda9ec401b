-------------------------- MODULE MCLauncherClaims --------------------------
(* Instances of LauncherClaims. *)
EXTENDS LauncherClaims

MCHashes == {"drz4j", "fngjv"}
MCHashShaped == MCHashes \cup {"apple"}

(* The example of the source comment, another VM with the same template,   *)
(* and a template that itself has a part of five letters.                  *)
PlainVMs ==
    {[vmi |-> <<"vm", "a">>, template |-> <<"dummy", "gpu">>],
     [vmi |-> <<"vm">>,      template |-> <<"dummy", "gpu">>],
     [vmi |-> <<"vm", "b">>, template |-> <<"apple", "net">>]}

(* A VM called "my-apple". *)
FiveLetterVMs == {[vmi |-> <<"my", "apple">>, template |-> <<"net">>]}
=============================================================================
