SPECIFICATION Spec
CONSTANTS
    s1 = s1
    s2 = s2
    c1 = c1
    c2 = c2
    x1 = x1
    o1 = o1
    o2 = o2
    None = None
    Steppers = {s1, s2}
    Controllers = {c1, c2}
    Executions = {x1}
    ExecOf <- SameExecution
    OpIds = {o1, o2}
    Calls <- Operations
    Declared <- Throttling
    AdapterActions <- ClaudeActions
    MaxCalls = 3
    MaxConfigurations = 2
CHECK_DEADLOCK FALSE
INVARIANTS
    TypeOK
    RegistryAccurate
    StepsEndTruly
    AuditAgrees
PROPERTIES
    CallsReturn
