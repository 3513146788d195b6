CONSTANTS
    Calls = {"set1", "set2", "read"}
    Tools = {"set_output", "read_input"}
    Name <- MCName
    MaxTurns = 2
    MaxDrops = 1
SPECIFICATION FairSpec
INVARIANTS TypeOK PairedUnlessMuddled ResultsShownOnce NothingPending
PROPERTIES FormComesBack
CHECK_DEADLOCK FALSE
