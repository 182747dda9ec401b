SPECIFICATION FairSpec
CONSTANTS
    HashShaped <- MCHashShaped
    DriverName <- Network
    None = None
    NoDir = NoDir
    NoMetadata = NoMetadata
    CommonSpec = CommonSpec
    Instances = {i}
    Handlers = {g, h}
    InstanceOf <- OneInstance
    Claims = {"c1", "c2"}
    Claim <- RejectedClaims
    DeviceSets <- Without0
    Serialize = FALSE
    Timeouts = FALSE
    Reuse = FALSE
    Reboots = FALSE
    Faults = {"read", "spec", "write"}
    MaxFaults = 1
    MaxCrashes = 1
INVARIANTS PreparedUsable UnpreparedIsGone
PROPERTIES RecordedIsUndone ImplementsLedger UnprepareCompletes PrepareCompletes
