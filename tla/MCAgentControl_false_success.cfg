SPECIFICATION Spec
CONSTANTS
    s1 = s1
    s2 = s2
    c1 = c1
    c2 = c2
    x1 = x1
    o1 = o1
    o2 = o2
    None = None
    Steppers = {s1}
    Controllers = {c1}
    Executions = {x1}
    ExecOf <- OneStepper
    OpIds = {o1, o2}
    Calls <- OneStop
    Declared <- Throttling
    AdapterActions <- ClaudeActions
    MaxCalls = 2
    MaxConfigurations = 1
CHECK_DEADLOCK FALSE
PROPERTIES
    StopReachesProcess
