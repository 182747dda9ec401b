SPECIFICATION Spec
CONSTANTS
    HashShaped <- MCHashShaped
    DriverName <- Network
    None = None
    NoDir = NoDir
    NoMetadata = NoMetadata
    CommonSpec = CommonSpec
    Instances = {old, new}
    Handlers = {g, h}
    InstanceOf <- AnInstanceEach
    Claims = {"c1", "c2"}
    Claim <- TwoClaims
    DeviceSets <- Shrinking
    Serialize = TRUE
    Timeouts = FALSE
    Reuse = FALSE
    Reboots = FALSE
    Faults = {"dirs", "spec", "write", "remove"}
    MaxFaults = 1
    MaxCrashes = 1
INVARIANTS TypeOK PreparedUsable CheckpointContainsPrepared UnpreparedIsGone NobodyLockedOut
PROPERTIES OnlyOwnEntry ImplementsLedger
