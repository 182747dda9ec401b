SPECIFICATION PrepareSpec
CONSTANTS
    Drivers = {"network.example.com", "gpu.example.com"}
    None = None
    Allocatable <- MCAllocatable
    Decodable <- MCDecodable
    Rejected <- MCRejected
    Allocations <- MCAllocations
    Reported = {"r0"}
    Steps = 5
    MaxPrepares = 2
    MaxCalls = 2
    MaxWrites = 3
INVARIANTS HighestPrecedence OnlyDevices OutpacedOnly
PROPERTIES Deterministic
CHECK_DEADLOCK FALSE
