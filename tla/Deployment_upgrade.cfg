CONSTANTS
    Versions = {r1, r2}
    Keys = {}
    None = None
    Mixed = Mixed
    Waiting = Waiting
SPECIFICATION Spec
INVARIANTS UpgradeKeepsRunning
