SPECIFICATION FairSpec
CONSTANTS
    old = old
    new = new
    uid1 = uid1
    uid2 = uid2
    Instances = {old, new}
    PodUID <- MCPodUID
    NoUID = NoUID
    Port <- MCPort
    None = None
    HelperWaits = TRUE
    MaxErrors = 1
    MaxCrashes = 1
INVARIANTS CallsFindNode NoFalseAlarm
PROPERTIES EndsByItself EndsIfRepeated
