SPECIFICATION FairPresence
CONSTANTS
    LiveAgents = {a1}
    Pinned = {}
    Reports <- MCReports
    Orchestrated = {a1}
    Statuses <- MCStatuses
    Requests = {q1, q2}
    MaxToken = 2
    MaxWrites = 2
    MaxFaults = 1
CHECK_DEADLOCK FALSE
INVARIANTS
    PresenceInv
PROPERTIES
    HeartbeatAgentsKept
    EventuallyStale
    FilesMirrored
