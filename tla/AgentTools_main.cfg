CONSTANTS
    Sessions = {"s1"}
    Calls = {"on", "off", "query"}
    Devices = {"d1", "d2"}
    Sess <- MCSess
    Kind <- MCKind
    Dev <- MCDev
    K = 2
    Served <- MCServed
    Cap = 3
    MaxRestarts = 1
    Free = Free
SPECIFICATION FairSpec
INVARIANTS TypeOK Serialized LimiterReady
PROPERTIES MinGap CallsFinish
