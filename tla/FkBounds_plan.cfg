SPECIFICATION JoinSpec
CONSTANTS
    p1 = p1
    p2 = p2
    Null = Null
    Planners = {p1, p2}
    Queries <- MCQueries
    FirstRows <- MCFirstRows
    Inserts <- MCInserts
    FactRows <- MCFactRows
    MaxQueries = 3
    MaxVersions = 3
    MaxDimRows = 4
    MaxInList = 2
    TopRows = 2
SYMMETRY PlannerSymmetry
INVARIANTS
    ResultKept
    BroadcastsDimension
CHECK_DEADLOCK FALSE
