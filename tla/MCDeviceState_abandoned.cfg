SPECIFICATION Spec
CONSTANTS
    HashShaped <- MCHashShaped
    DriverName <- Network
    None = None
    NoDir = NoDir
    NoMetadata = NoMetadata
    CommonSpec = CommonSpec
    Instances = {i}
    Handlers = {g, h}
    InstanceOf <- OneInstance
    Claims = {"c1", "c2"}
    Claim <- OneDeviceClaims
    DeviceSets <- AllThree
    Serialize = FALSE
    Timeouts = TRUE
    Reuse = TRUE
    Reboots = TRUE
    Faults = {"spec"}
    MaxFaults = 1
    MaxCrashes = 1
INVARIANTS NoDuplicateEntry
PROPERTIES OnlyOwnEntry RecordedIsUndone
SYMMETRY HandlerSymmetry
