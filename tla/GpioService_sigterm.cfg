CONSTANTS
    N = 3
    Kind <- MCKind
    Pins <- MCPins
    Pin <- MCPin
    SafeDefault <- MCSafeDefault
    K = 3
    BadSetup <- MCBadSetup
    Released = Released
    MaxFaults = 0
SPECIFICATION Spec
INVARIANTS TeardownPath
