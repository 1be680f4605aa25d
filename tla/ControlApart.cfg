SPECIFICATION FairApart
CONSTANTS
    Commands = {k1, k2}
    Sessions = {s1, s2}
    NoCommand = NoCommand
    CommandTTLs = {1}
    ApprovalTTL = 1
    PollLimit = 1
    MaxClock = 1
    OperatorCancels = FALSE
CHECK_DEADLOCK FALSE
PROPERTIES
    ReleasedLeavesQueue
