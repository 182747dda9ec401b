SPECIFICATION Spec
CONSTANTS
    HashShaped <- MCHashShaped
    DriverName <- Network
    None = None
    NoDir = NoDir
    NoMetadata = NoMetadata
    CommonSpec = CommonSpec
    Instances = {i}
    Handlers = {g, h}
    InstanceOf <- OneInstance
    Claims = {"c1", "c2"}
    Claim <- OneDeviceClaims
    DeviceSets <- AllThree
    Serialize = FALSE
    Timeouts = FALSE
    Reuse = FALSE
    Reboots = TRUE
    Faults = {}
    MaxFaults = 1
    MaxCrashes = 1
INVARIANTS PreparedUsable
