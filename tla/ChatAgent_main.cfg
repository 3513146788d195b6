CONSTANTS
    Conns = {"c1", "c2"}
    None = None
    MaxInbox = 1
    Askers = {"c1"}
    Calls = {"on", "off"}
    Devices = {"d1"}
    Sess <- MCSess
    Kind <- MCKind
    Dev <- MCDev
    K = 1
    Served <- MCServed
    Cap = 0
    MaxRestarts = 1
    Free = Free
SPECIFICATION FairSpec
INVARIANTS SessionSerialized
PROPERTIES DisplacedToolsEnd
CHECK_DEADLOCK FALSE
