--------------------------- MODULE MCDeviceState ---------------------------
(* Instances of DeviceState. *)
EXTENDS DeviceState, TLC

Network == "network.example.com"
Other   == "gpu.example.com"

Own(request, device)     == [driver |-> Network, request |-> request, device |-> device]
Foreign(request, device) == [driver |-> Other, request |-> request, device |-> device]

FromClass(driver) == [source |-> "FromClass", opaque |-> TRUE, driver |-> driver]

MCHashShaped == {"drz4j", "fngjv", "x2k8p"}

(* A claim of a VM's launcher pod with two devices and one of another      *)
(* driver, which also comes with a config for that driver; and a plain     *)
(* claim.                                                                  *)
TwoClaims ==
    [c \in {"c1", "c2"} |->
        IF c = "c1"
        THEN [name    |-> <<"virt", "launcher", "vm", "a", "drz4j", "net", "fngjv">>,
              results |-> <<Own("left", "n0"), Foreign("gpu", "g0"), Own("right", "n1")>>,
              configs |-> {FromClass(Other)}]
        ELSE [name    |-> <<"plain">>,
              results |-> <<Own("left", "n2")>>,
              configs |-> {}]]

OneDeviceClaims ==
    [c \in {"c1", "c2"} |->
        IF c = "c1"
        THEN [name    |-> <<"virt", "launcher", "vm", "a", "drz4j", "net", "fngjv">>,
              results |-> <<Own("left", "n0")>>,
              configs |-> {}]
        ELSE [name    |-> <<"plain">>,
              results |-> <<Own("left", "n1")>>,
              configs |-> {}]]

(* A claim whose two requests got the same device, which no CDI spec can   *)
(* hold, beside a good one.                                                *)
RejectedClaims ==
    [c \in {"c1", "c2"} |->
        IF c = "c1"
        THEN [name    |-> <<"virt", "launcher", "vm", "a", "drz4j", "net", "fngjv">>,
              results |-> <<Own("left", "n0")>>,
              configs |-> {}]
        ELSE [name    |-> <<"odd">>,
              results |-> <<Own("left", "n1"), Own("right", "n1")>>,
              configs |-> {}]]

(* Two claims of the same name in different namespaces. *)
SameNameClaims ==
    [c \in {"c1", "c2"} |->
        [name    |-> <<"net", "claim">>,
         results |-> <<Own("left", IF c = "c1" THEN "n0" ELSE "n1")>>,
         configs |-> {}]]

OneInstance == [h \in Handlers |-> CHOOSE i \in Instances : TRUE]
AnInstanceEach == CHOOSE f \in [Handlers -> Instances] :
                      \A g, h \in Handlers : f[g] = f[h] => g = h

AllThree == {{"n0", "n1", "n2"}}
Shrinking == {{"n0", "n1", "n2"}, {"n0"}}
Without0 == {{"n0", "n1", "n2"}, {"n1"}}

HandlerSymmetry == Permutations(Handlers)
=============================================================================
