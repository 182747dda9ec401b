SPECIFICATION Spec
CONSTANTS
    HashShaped <- MCHashShaped
    DriverName <- Network
    None = None
    NoDir = NoDir
    NoMetadata = NoMetadata
    CommonSpec = CommonSpec
    Instances = {i}
    Handlers = {g, h}
    InstanceOf <- OneInstance
    Claims = {"c1", "c2"}
    Claim <- SameNameClaims
    DeviceSets <- AllThree
    Serialize = FALSE
    Timeouts = FALSE
    Reuse = FALSE
    Reboots = FALSE
    Faults = {}
    MaxFaults = 1
    MaxCrashes = 0
INVARIANTS PreparedUsable
