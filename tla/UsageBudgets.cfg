SPECIFICATION Spec
CONSTANTS
    Events = {1, 2, 3, 4}
    Event <- MCEvent
    References = {"p1"}
    Rates <- MCRates
    Current = "v1"
    Budgets = {"tenant", "mine"}
    Scope <- MCScope
    Draft <- MCDraft
    Changes <- MCChanges
    Thresholds = {50}
    DEFAULT_THRESHOLDS = {50}
    Requests = {r1, r2}
    MaxVersion = 2
    MaxResolved = 1
SYMMETRY Symmetry
INVARIANTS
    UsageInv
    OneActiveAlert
    GateIsStrictest
PROPERTIES
    NoticedAlone
    AlertsMoveAlone
