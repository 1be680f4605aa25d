SPECIFICATION Spec
CONSTANTS
    Commands = {k1}
    Sessions = {s1, s2}
    NoCommand = NoCommand
    CommandTTLs = {1}
    ApprovalTTL = 2
    PollLimit = 1
    MaxClock = 2
    OperatorCancels = FALSE
CHECK_DEADLOCK FALSE
PROPERTIES
    TerminalIsImmutable
