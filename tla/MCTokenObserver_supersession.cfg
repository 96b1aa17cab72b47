SPECIFICATION Spec
CONSTANTS
    x1 = x1
    x2 = x2
    p1 = p1
    p2 = p2
    None = None
    Executions = {x1}
    Events <- OneStream
    MaxClears = 0
CHECK_DEADLOCK FALSE
PROPERTIES
    Supersession
