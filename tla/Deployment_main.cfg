CONSTANTS
    Versions = {r1, r2}
    Keys = {key}
    None = None
    Mixed = Mixed
    Waiting = Waiting
SPECIFICATION Spec
SYMMETRY Releases
INVARIANTS TypeOK InstallConverges UpgradeComplete UninstallStops KeysReachAgent
PROPERTIES FirstConfigurationServes
