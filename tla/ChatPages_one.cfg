CONSTANTS
    Conns = {c1, c2, c3}
    None = None
    Pages = {p1}
    Turns = 2
    MaxFaults = 2
SPECIFICATION FairSpec
PROPERTIES Settles
CHECK_DEADLOCK FALSE
