SPECIFICATION Spec
CONSTANTS
    Commands = {k1}
    Sessions = {s1, s2, s3}
    NoCommand = NoCommand
    CommandTTLs = {1}
    ApprovalTTL = 2
    PollLimit = 1
    MaxClock = 3
    OperatorCancels = TRUE
SYMMETRY Symmetry
CHECK_DEADLOCK FALSE
INVARIANTS
    HandedOnlyIfApproved
    ApprovalCommandAgreement
    ControlInv
    StatusAnnounced
    HandedOncePerOverlap
PROPERTIES
    ApprovalsFollowMachine
    CommandsMoveFromRead
