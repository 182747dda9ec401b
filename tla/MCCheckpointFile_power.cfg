SPECIFICATION Spec
CONSTANTS
    s = s
    t = t
    old = old
    new = new
    Instances = {old, new}
    Threads = {s, t}
    InstanceOf <- MCInstanceOf
    Files = {f1, f2, f3}
    NoFile = NoFile
    Versions = {empty, v, w}
    EmptyCheckpoint = empty
    Faults = {"create", "encode", "sync", "rename", "close", "read"}
    MaxFaults = 1
    MaxCrashes = 1
INVARIANTS NeverTorn
PROPERTIES ImplementsRegister
SYMMETRY Symmetry
