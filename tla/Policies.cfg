SPECIFICATION PoliciesSpec
CONSTANTS
    Policies = {1, 2, 3}
    Drafts <- MCDrafts
    Changes <- MCChanges
    Actions <- MCActions
    Default = "allow"
    Edits = {r1, r2}
    MaxVersion = 2
SYMMETRY Symmetry
CHECK_DEADLOCK FALSE
INVARIANTS
    PoliciesInv
PROPERTIES
    DisabledStays
