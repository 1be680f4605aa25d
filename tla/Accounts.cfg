SPECIFICATION FairSpec
CONSTANTS
    Users <- MCUsers
    Founders <- MCFounders
    Addresses = {"ip1"}
    LIMIT = 1
    WINDOW = 2
    LinkTTL = 1
    MaxLink = 2
    MaxWrites = 0
    Requests = {r1, r2}
INVARIANTS
    AccountsInv
PROPERTIES
    LockoutEnds
    AdminSurvivesAlone
    SupersedesAlone
