CONSTANTS
    Conns = {c1, c2}
    None = None
    Keys = {TRUE, FALSE}
    Frames = {"turn", "odd", "bad", "other"}
    MaxInbox = 1
SPECIFICATION FairSpec
INVARIANTS TypeOK NewestOwns Displaced ToldLost Answered
PROPERTIES TakeoverServes TurnAnswered DisplacedEnds
