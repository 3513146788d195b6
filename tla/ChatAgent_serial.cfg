CONSTANTS
    Conns = {"c1", "c2"}
    None = None
    MaxInbox = 1
    Askers = {"c1", "c2"}
    Calls = {"on", "late"}
    Devices = {"d1"}
    Sess <- MCSess
    Kind <- MCKind
    Dev <- MCDev
    K = 1
    Served <- MCServed
    Cap = 1
    MaxRestarts = 0
    Free = Free
SPECIFICATION Spec
INVARIANTS DeviceSerialized
CHECK_DEADLOCK FALSE
