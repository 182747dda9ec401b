-------------------------- MODULE MCPrepareDevices --------------------------
(* Instances of PrepareDevices: the allocations. *)
EXTENDS PrepareDevices

Net == "network.example.com"
Gpu == "gpu.example.com"

MCAllocatable == [d \in Drivers |-> IF d = Net THEN {"n0", "n1", "r0"} ELSE {"g0", "r0"}]
MCDecodable   == [d \in Drivers |-> {"fast", "slow", "broken"}]
MCRejected    == [d \in Drivers |-> {"broken"}]

Config(source, opaque, driver, parameters, requests) ==
    [source |-> source, opaque |-> opaque, driver |-> driver,
     parameters |-> parameters, requests |-> requests]

(* Configs for all or some of the requests, and one of each kind that is   *)
(* refused or skipped.                                                     *)
Configs ==
    {Config(source, TRUE, Net, parameters, requests) :
        source \in Sources, parameters \in {"fast", "slow"}, requests \in {{}, {"left"}}}
    \cup {Config("FromClaim", TRUE, Net, "slow", {"left", "right"}),
          Config("FromClaim", TRUE, Net, "unknown", {}),
          Config("FromClass", TRUE, Net, "broken", {"left"}),
          Config("FromClass", TRUE, Gpu, "fast", {}),
          Config("FromClaim", FALSE, Gpu, "none", {}),
          Config("FromPool", TRUE, Gpu, "fast", {})}

Result(driver, request, device, admin) ==
    [driver |-> driver, request |-> request, device |-> device, admin |-> admin]

(* Devices without a status for two requests: one driver's, also one that  *)
(* it no longer has, one for two requests, and one beside another driver's.*)
Silent ==
    {<<Result(Net, "left", "n0", FALSE), Result(Net, "right", "n1", FALSE)>>,
     <<Result(Net, "right", "n0", FALSE), Result(Net, "left", "n0", FALSE)>>,
     <<Result(Net, "left", "n9", FALSE)>>,
     <<Result(Gpu, "left", "g0", TRUE), Result(Net, "right", "n1", FALSE)>>}

(* Devices with a status, of both drivers. *)
Reporting == <<Result(Net, "left", "r0", FALSE), Result(Gpu, "right", "r0", FALSE)>>

SeqsUpTo(n, S) == UNION {[1 .. m -> S] : m \in 0 .. n}

(* Many allocations without a status, and one where both drivers publish   *)
(* one and a config decides between them.                                  *)
MCAllocations ==
    [configs : SeqsUpTo(2, Configs), results : Silent]
    \cup [configs : {<<Config("FromClass", TRUE, Net, "fast", {})>>}, results : {Reporting}]
=============================================================================
