SPECIFICATION Spec
CONSTANTS
    MaxEvent = 3
    Kinds <- MCOverlapKinds
    Orphans = {2}
    Beats = {1, 2}
    Sessions = {s1, s2}
SYMMETRY Symmetry
INVARIANTS
    IngestInv
    ProjectionFromJournal
PROPERTIES
    StepStaysClosed
    RunMovesFromRead
    AgentFallsBehindByStale
