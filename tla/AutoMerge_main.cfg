CONSTANTS
    Groups = {"branch", "number"}
    Branch = "branch"
    MaxChanges = 5
SPECIFICATION FairSpec
INVARIANTS GateHeld
PROPERTIES EligibleMerges
CHECK_DEADLOCK FALSE
