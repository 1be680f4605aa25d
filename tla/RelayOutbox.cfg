SPECIFICATION FairSpec
CONSTANTS
    MaxRow = 2
    Tenantless <- MCTenantless
    Workers = {w1, w2}
    BatchSize = 2
    MaxAttempts = 2
    MaxCrashes = 1
    MaxOutages = 1
CHECK_DEADLOCK FALSE
INVARIANTS
    OutboxInv
PROPERTIES
    RowsFollowLifecycle
    OutboxDrains
    ReachesEveryProcess
