SPECIFICATION FairSpec
CONSTANTS
    Users = {"u1", "u2"}
    Installations = {1, 2}
    Mapped <- MCMapped
    Company <- MCCompany
    Role <- MCRole
    Agents = {"k1"}
    Home <- MCHome
    Scopes <- MCScopes
    Deadlines = {1}
    MaxCred = 2
    MaxTime = 1
    Operators = {o1, o2}
    Sessions = {s1}
INVARIANTS
    AccessInv
PROPERTIES
    SuspensionHolds
    CredentialsFollowMachine
    RevokedFallsSilent
