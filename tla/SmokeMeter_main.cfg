CONSTANTS
    N = 3
    Kind <- MCKind
    Pins <- MCPins
    Pin <- MCPin
    SafeDefault <- MCSafeDefault
    K = 3
    BadSetup <- MCBadSetup
    Released = Released
    MaxFaults = 2
    Meter = 1
SPECIFICATION FairSmokeSpec
INVARIANTS TypeOK StateMatchesLine DistinctPins LeftLow
PROPERTIES CleanExit LinesImplemented CrashRecovered
