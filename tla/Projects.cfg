SPECIFICATION Spec
CONSTANTS
    Tenants = {"t1", "t2"}
    Local = "t1"
    Projects = {1, 2, 3}
    Seed = 1
    Slugs <- MCSlugs
    Tasks = {1, 2, 3}
    SeedTasks = {}
    Code <- MCCode
    Born <- MCBorn
    Agents = {"a1"}
    Home <- MCHome
    Requests = {r1, r2}
    Limit = 1
    MaxWrites = 2
SYMMETRY Symmetry
CHECK_DEADLOCK FALSE
INVARIANTS
    BoardInv
PROPERTIES
    TasksListed
