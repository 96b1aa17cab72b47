SPECIFICATION FairSpec
CONSTANTS
    e1 = e1
    e2 = e2
    c1 = c1
    c2 = c2
    x1 = x1
    x2 = x2
    NoThread = NoThread
    Executors = {e1, e2}
    Cancellers = {c1, c2}
    Ids = {x1, x2}
    Assignments <- Racing
    CancelAfterStart = FALSE
    BusMayFail = FALSE
INVARIANTS
    TypeOK
    AuditTrail
    ResultMatchesState
    OutcomesAreEarned
PROPERTIES
    CancelOfRunningSticks
    ExecutionsSettle
