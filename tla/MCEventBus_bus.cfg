SPECIFICATION Spec
CONSTANTS
    t1 = t1
    t2 = t2
    Threads = {t1, t2}
    Executions <- TwoExecutions
    Events <- Mixed
    Filters <- TwoFilters
    Isolations = {TRUE, FALSE}
    MaxPublish = 2
    MaxSubs = 2
    MaxClears = 1
SYMMETRY Swap
CHECK_DEADLOCK FALSE
INVARIANTS
    TypeOK
    AtMostOnce
    WholeAudience
    FailuresSurface
    TablesAgree
