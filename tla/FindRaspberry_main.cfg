CONSTANTS
    Machines = {1, 3, 4}
    Cidrs <- MCCidrs
    Scannable = {1, 2, 4, 5}
    MaxHosts = 3
    Defaults <- MCDefaults
    Others = {"pi.lan"}
    Options <- MCOptions
    Likely = {"raspberrypi.local"}
    Ip <- MCIp
    Files <- MCFiles
    MaxSaves = 1
SPECIFICATION Spec
INVARIANTS ScansLowest OrderIrrelevant ReadersAgree OthersKept
